---- MODULE Spec2Model ----
(***************************************************************************)
(* Model of the document-processing pipeline of leaf-daily-supabase:       *)
(*   - the job queue kept in the table public.processing_jobs and its      *)
(*     SQL functions enqueue_job, get_next_job and complete_job;           *)
(*   - the stage handlers (extract-pdf-text, detect-chapters,              *)
(*     store-chapters) that enqueue one another's jobs;                    *)
(*   - the enhancement worker (enhance-chapters) with its module-level     *)
(*     rate-limit counters.                                                *)
(* Each part has its own specification (SpecQueue, SpecPipeline,           *)
(* SpecEnhance, SpecBatch, SpecStatus, SpecWorkflow, SpecStore,            *)
(* SpecResubmit, SpecCache and the specifications that follow them) over   *)
(* the same variables.                                                     *)
(***************************************************************************)
EXTENDS Integers, Sequences, FiniteSets, TLC

(***************************************************************************)
(* Bounds of the model                                                     *)
(***************************************************************************)
\* rows the environment may insert into processing_jobs in SpecQueue
MaxJobs == 2
\* concurrent callers of get_next_job
NumWorkers == 2

Workers == 1..NumWorkers

(***************************************************************************)
(* Program constants                                                       *)
(***************************************************************************)
\* processing_jobs.max_retries INTEGER DEFAULT 3
DefaultMaxRetries == 3
\* enqueue_job(... p_priority INTEGER DEFAULT 5 ...)
DefaultPriority == 5

\* depends_on_job IS NULL
NULL == 0

JobTypes == {"extract_text", "detect_chapters", "store_chapters", "enhance_chapters"}
JobStatuses == {"pending", "running", "completed", "failed", "retrying"}

\* documents whose pipeline is followed in SpecPipeline
NumBooks == 1
Books == 1..NumBooks

\* processing_cache.cache_type values written by the stage handlers
CacheTypes == {"text_extraction", "chapter_detection"}

VARIABLES
  processing_jobs,  \* the table public.processing_jobs: row i has id i
  row_locks,        \* ids of rows locked FOR UPDATE by a transaction not yet committed
  pc,               \* position of each worker
  held,             \* the job id get_next_job selected for / returned to each worker
  books,            \* books.processing_status of each document
  processing_cache, \* processing_cache: per cache type and document, 0 = no entry
  chapters,         \* number of rows of the table chapters of each document
  now,              \* Date.now(), in ticks of 1000 ms
  activeRequests,   \* enhance-chapters: let activeRequests
  requestCounts,    \* enhance-chapters: let requestCounts
  lastRequestTime,  \* enhance-chapters: let lastRequestTime
  request,          \* the locals of each invocation of enhance-chapters
  enhancement_status, \* chapters.enhancement_status of the rows of each invocation
  nullResults,      \* per invocation, the chapters for which enhanceChapterWithAI gave null
  recentCalls,      \* calls of the external API at now, now - 1, ... (one window)
  hourCalls,        \* calls of the external API since the module was loaded
  book_enhancement_status, \* books.enhancement_status of each document
  overallStatus,    \* updateBookEnhancementStatus: let overallStatus, "none" outside it
  processing_started_at, \* books.processing_started_at of each document, in ticks
  chapter_rows,     \* the rows of the table chapters of each document (SpecStore)
  store,            \* the locals of each invocation of store-chapters (SpecStore)
  cache_entries,    \* the rows of the table processing_cache, in insertion order (SpecCache)
  cache_call,       \* the locals of each caller of checkCache / storeInCache (SpecCache)
  processing_progress, \* the rows of the table processing_progress
  book_totals,      \* books.total_word_count and books.estimated_total_reading_time
  workflow,         \* the locals and the response of each invocation of the orchestrator
  chapter_fields,   \* title, content and summary of the rows of chapters, with their writers
  enhancer,         \* the locals of an invocation of enhance-chapters (SpecChapters)
  extraction,       \* the locals of an invocation of extract-pdf-text (SpecExtract)
  detection         \* the locals of an invocation of detect-chapters (SpecDetect)

queueVars == <<processing_jobs, row_locks, pc, held>>
pipelineVars == <<books, processing_cache, chapters>>
enhanceVars == <<now, activeRequests, requestCounts, lastRequestTime, request,
                 enhancement_status, nullResults, recentCalls, hourCalls>>
statusVars == <<book_enhancement_status, overallStatus>>
cacheVars == <<cache_entries, cache_call>>
stageVars == <<workflow, chapter_fields, enhancer, extraction, detection>>
recordVars == <<processing_progress, book_totals, workflow, chapter_fields, enhancer,
                extraction, detection>>
rowVars == <<chapter_rows, store, cache_entries, cache_call, processing_progress,
             book_totals, workflow, chapter_fields, enhancer, extraction, detection>>
tableVars == <<book_enhancement_status, overallStatus, processing_started_at,
               chapter_rows, store, cache_entries, cache_call, processing_progress,
               book_totals, workflow, chapter_fields, enhancer, extraction, detection>>
vars == <<processing_jobs, row_locks, pc, held, books, processing_cache, chapters,
          now, activeRequests, requestCounts, lastRequestTime, request,
          enhancement_status, nullResults, recentCalls, hourCalls,
          book_enhancement_status, overallStatus, processing_started_at,
          chapter_rows, store, cache_entries, cache_call, processing_progress,
          book_totals, workflow, chapter_fields, enhancer, extraction, detection>>

JobIds == 1..Len(processing_jobs)

(***************************************************************************)
(* get_next_job: the sub-select                                            *)
(*   SELECT j.id FROM processing_jobs j                                    *)
(*   LEFT JOIN processing_jobs dep ON j.depends_on_job = dep.id            *)
(*   WHERE j.status = 'pending'                                            *)
(*     AND (j.depends_on_job IS NULL OR dep.status = 'completed')          *)
(*     AND j.retry_count < j.max_retries                                   *)
(*   ORDER BY j.priority ASC, j.created_at ASC LIMIT 1                     *)
(*   FOR UPDATE SKIP LOCKED                                                *)
(***************************************************************************)
\* a mutant of DependencySatisfied: the join condition is dropped
DependencySatisfied_Ignored(j) == TRUE

\* (j.depends_on_job IS NULL OR dep.status = 'completed'); a depends_on_job that
\* matches no row gives a NULL dep, whose status is not 'completed'
DependencySatisfied(j) ==
  \/ processing_jobs[j].depends_on_job = NULL
  \/ /\ processing_jobs[j].depends_on_job \in JobIds
     /\ processing_jobs[processing_jobs[j].depends_on_job].status = "completed"

\* a mutant of SkipLocked: a plain SELECT that reads rows others have locked
SkipLocked_ReadThenWrite(j) == TRUE

\* FOR UPDATE SKIP LOCKED: a row locked by another transaction is passed over
SkipLocked(j) == j \notin row_locks

\* j.retry_count < j.max_retries
RetriesLeft(j) == processing_jobs[j].retry_count < processing_jobs[j].max_retries

\* the WHERE clause of the sub-select
Eligible(j) ==
  /\ processing_jobs[j].status = "pending"
  /\ DependencySatisfied(j)
  /\ RetriesLeft(j)
  /\ SkipLocked(j)

\* ORDER BY j.priority ASC, j.created_at ASC
OrderBefore(a, b) ==
  \/ processing_jobs[a].priority < processing_jobs[b].priority
  \/ /\ processing_jobs[a].priority = processing_jobs[b].priority
     /\ processing_jobs[a].created_at < processing_jobs[b].created_at

\* LIMIT 1: the rows that may come first (equal keys are ordered arbitrarily)
NextJobCandidates ==
  {j \in JobIds : Eligible(j) /\ \A k \in JobIds : Eligible(k) => ~OrderBefore(k, j)}

(***************************************************************************)
(* enqueue_job(p_book_id, p_job_type, p_input_data, p_priority,            *)
(*             p_depends_on_job): INSERT with the column defaults          *)
(***************************************************************************)
\* input_data: the part of the payload the stages act on
Payload(n, i, k) == [chapters |-> n, batch_number |-> i, total_batches |-> k]
NoPayload == Payload(0, 0, 0)

NewJob(b, t, in, p, d, at) ==
  [book_id |-> b, job_type |-> t, input_data |-> in, status |-> "pending",
   priority |-> p, retry_count |-> 0, max_retries |-> DefaultMaxRetries,
   depends_on_job |-> d, created_at |-> at]

\* created_at DEFAULT now(): not earlier than the previous row's
LastCreatedAt ==
  IF processing_jobs = <<>> THEN 0
  ELSE processing_jobs[Len(processing_jobs)].created_at

\* concurrent callers may insert at the same instant
CreationTimes == {LastCreatedAt, LastCreatedAt + 1} \ {0}

enqueue_job(b, t, in, p, d, at) ==
  processing_jobs' = Append(processing_jobs, NewJob(b, t, in, p, d, at))

\* the priorities and dependencies callers pass in SpecQueue
Priorities == {1, DefaultPriority}
DanglingJob == MaxJobs + 1
Dependencies == {NULL} \cup JobIds \cup {DanglingJob}

EnqueueJob ==
  /\ Len(processing_jobs) < MaxJobs
  /\ \E p \in Priorities, d \in Dependencies, at \in CreationTimes :
       enqueue_job(1, "extract_text", NoPayload, p, d, at)
  /\ UNCHANGED <<row_locks, pc, held, pipelineVars>>
  /\ UNCHANGED <<enhanceVars, tableVars>>

(***************************************************************************)
(* get_next_job(): the sub-select locks the chosen row; the UPDATE sets    *)
(* status = 'running' and the row is returned when the call commits        *)
(***************************************************************************)
GetNextJobSelect(w) ==
  /\ pc[w] = "idle"
  /\ \E j \in NextJobCandidates :
       /\ row_locks' = row_locks \cup {j}
       /\ held' = [held EXCEPT ![w] = j]
  /\ pc' = [pc EXCEPT ![w] = "claiming"]
  /\ UNCHANGED <<processing_jobs, pipelineVars>>
  /\ UNCHANGED <<enhanceVars, tableVars>>

GetNextJobCommit(w) ==
  /\ pc[w] = "claiming"
  /\ processing_jobs' = [processing_jobs EXCEPT ![held[w]].status = "running"]
  /\ row_locks' = row_locks \ {held[w]}
  /\ pc' = [pc EXCEPT ![w] = "running"]
  /\ UNCHANGED <<held, pipelineVars>>
  /\ UNCHANGED <<enhanceVars, tableVars>>

\* the sub-select yields no row: nothing is updated, nothing is returned
GetNextJobEmpty(w) ==
  /\ pc[w] = "idle"
  /\ NextJobCandidates = {}
  /\ UNCHANGED <<processing_jobs, row_locks, pc, held, pipelineVars>>
  /\ UNCHANGED <<enhanceVars, tableVars>>

(***************************************************************************)
(* complete_job(p_job_id, p_output_data, p_success, p_error_message)       *)
(***************************************************************************)
\* the failure branch: both SET expressions read the row as it was
FailedJobRow(row) ==
  [row EXCEPT !.status = IF row.retry_count < row.max_retries
                         THEN "pending" ELSE "failed",
              !.retry_count = row.retry_count + 1]

complete_job(j, success) ==
  processing_jobs' =
    [processing_jobs EXCEPT ![j] =
       IF success THEN [@ EXCEPT !.status = "completed"] ELSE FailedJobRow(@)]

\* the worker that ran job held[w] reports its outcome
CompleteJob(w) ==
  /\ pc[w] = "running"
  /\ \E success \in BOOLEAN : complete_job(held[w], success)
  /\ pc' = [pc EXCEPT ![w] = "idle"]
  /\ held' = [held EXCEPT ![w] = NULL]
  /\ UNCHANGED <<row_locks, pipelineVars>>
  /\ UNCHANGED <<enhanceVars, tableVars>>

(***************************************************************************)
(* SpecQueue: the queue under arbitrary callers                            *)
(***************************************************************************)
(***************************************************************************)
(* enhance-chapters: RATE_LIMIT and the module-level state. Times are in   *)
(* ticks of 1000 ms; the windows and budgets are scaled down so that they  *)
(* are reached within MaxTime.                                             *)
(***************************************************************************)
\* concurrent invocations of enhance-chapters in one isolate
NumRequests == 2
Requests == 1..NumRequests
\* the clock stops here
MaxTime == 6
\* the 60000 ms window of requestCounts
MinuteWindow == 3
\* the 3600000 ms window of requestCounts: longer than the time modelled
HourWindow == MaxTime + MinuteWindow
\* RATE_LIMIT.requestsPerMinute, requestsPerHour, maxConcurrentRequests, maxRetries
requestsPerMinute == 3
requestsPerHour == 5
maxConcurrentRequests == 1
maxRetries == 1
\* RATE_LIMIT.baseDelay: 1000 ms
baseDelay == 1
\* RATE_LIMIT.backoffMultiplier
backoffMultiplier == 2
\* setTimeout(resolve, 500) in waitForRateLimit, rounded up to a tick
PollDelay == 1
\* setTimeout(resolve, 2000) after a response with status >= 500
ServerErrorDelay == 2

\* let lastRequestTime = 0: the epoch, further back than any delay
LongAgo == 0 - baseDelay

\* an invocation that has not been received, or has responded
NoRequest ==
  [pc |-> "none", chapters |-> 0, i |-> 0, retryCount |-> 0, now |-> 0, wakeAt |-> 0]

\* concurrent or successive invocations of store-chapters
NumStoreRuns == 2
StoreRuns == 1..NumStoreRuns

\* an invocation of store-chapters that has not been received
NoStoreRun ==
  [pc |-> "none", book |-> 0, chapters |-> 0, i |-> 0, k |-> 0, inserted |-> 0,
   rerun |-> FALSE]

\* concurrent stage handlers that use the cache
NumCacheCallers == 2
CacheCallers == 1..NumCacheCallers
\* cache lookups one handler process serves
MaxCacheCalls == 2

\* checkCache returned null / nothing returned yet
NoResult == <<>>

\* a stage handler that has not looked anything up
NoCacheCall ==
  [pc |-> "idle", cache_key |-> <<>>, cache_type |-> "none", computed |-> NoResult,
   row |-> 0, hit_count |-> 0, result |-> NoResult, calls |-> 0]

\* invocations of the orchestrator
NumWorkflows == 2
WorkflowRuns == 1..NumWorkflows

\* the ids of the rows of chapters followed field by field
NumChapterIds == 2
ChapterIds == 1..NumChapterIds

\* a handler that has not been invoked
NotInvoked == [pc |-> "none"]

\* no row with this id
NoChapter == [stored |-> FALSE]

\* books.enhancement_status DEFAULT 'pending'; nobody is inside
\* updateBookEnhancementStatus; no chapter is stored; processing_cache is empty
InitTables ==
  /\ book_enhancement_status = [b \in Books |-> "pending"]
  /\ overallStatus = "none"
  /\ processing_started_at = [b \in Books |-> 0]
  /\ chapter_rows = [b \in Books |-> {}]
  /\ store = [r \in StoreRuns |-> NoStoreRun]
  /\ cache_entries = <<>>
  /\ cache_call = [c \in CacheCallers |-> NoCacheCall]
  /\ processing_progress = {}
  /\ book_totals = [b \in Books |->
                      [total_word_count |-> NULL, estimated_total_reading_time |-> NULL]]
  /\ workflow = [r \in WorkflowRuns |-> NotInvoked]
  /\ chapter_fields = [c \in ChapterIds |-> NoChapter]
  /\ enhancer = NotInvoked
  /\ extraction = NotInvoked
  /\ detection = NotInvoked

\* the module is loaded at time 0
InitModule ==
  /\ now = 0
  /\ activeRequests = 0
  /\ requestCounts = [minute |-> [count |-> 0, resetTime |-> MinuteWindow],
                      hour |-> [count |-> 0, resetTime |-> HourWindow]]
  /\ lastRequestTime = LongAgo
  /\ request = [r \in Requests |-> NoRequest]
  /\ enhancement_status = [r \in Requests |-> <<>>]
  /\ nullResults = [r \in Requests |-> {}]
  /\ recentCalls = [k \in 1..MinuteWindow |-> 0]
  /\ hourCalls = 0
  /\ InitTables

\* books.processing_status DEFAULT 'pending'; no cache entry, no chapter yet
InitStore ==
  /\ books = [b \in Books |-> "pending"]
  /\ processing_cache = [t \in CacheTypes |-> [b \in Books |-> 0]]
  /\ chapters = [b \in Books |-> 0]

InitQueue ==
  /\ processing_jobs = <<>>
  /\ row_locks = {}
  /\ pc = [w \in Workers |-> "idle"]
  /\ held = [w \in Workers |-> NULL]
  /\ InitStore
  /\ InitModule

NextQueue ==
  \/ EnqueueJob
  \/ \E w \in Workers : GetNextJobSelect(w)
  \/ \E w \in Workers : GetNextJobCommit(w)
  \/ \E w \in Workers : GetNextJobEmpty(w)
  \/ \E w \in Workers : CompleteJob(w)

SpecQueue == InitQueue /\ [][NextQueue]_vars

(***************************************************************************)
(* Properties of the queue                                                 *)
(***************************************************************************)
\* the workers to which get_next_job has handed job j and who have not yet
\* reported its outcome
Claimers(j) == {w \in Workers : held[w] = j}

\* C1: at no time is one job held by two callers of get_next_job: a job is
\* selected, set running and returned to at most one caller per attempt.
C1_NoDuplicateClaim ==
  \A j \in JobIds : Cardinality(Claimers(j)) <= 1

\* two callers are inside get_next_job or running at once, on different jobs
C1_Witness ==
  \E w1, w2 \in Workers :
    /\ w1 # w2
    /\ pc[w1] \in {"claiming", "running"}
    /\ pc[w2] \in {"claiming", "running"}
    /\ held[w1] # held[w2]

\* worker w reports the failure of the job it runs
ReportsFailure(w) ==
  /\ pc[w] = "running"
  /\ pc'[w] = "idle"
  /\ processing_jobs'[held[w]].status # "completed"

\* C2: when a running job is reported as failed its retry count grows by one,
\* and it is pending if that retry count is below max_retries and failed
\* otherwise.
C2_FailureRetriesOrFails ==
  [][\A w \in Workers : ReportsFailure(w) =>
       /\ processing_jobs'[held[w]].retry_count =
            processing_jobs[held[w]].retry_count + 1
       /\ processing_jobs'[held[w]].status =
            IF processing_jobs'[held[w]].retry_count <
                 processing_jobs'[held[w]].max_retries
            THEN "pending" ELSE "failed"]_vars

\* C3: a job with a dependency is set running only when the row it depends on
\* exists and is completed.
C3_DependencyBeforeClaim ==
  [][\A j \in JobIds :
       ( /\ processing_jobs[j].status # "running"
         /\ processing_jobs'[j].status = "running"
         /\ processing_jobs[j].depends_on_job # NULL )
       => /\ processing_jobs[j].depends_on_job \in JobIds
          /\ processing_jobs[processing_jobs[j].depends_on_job].status = "completed"]_vars

\* a job with a dependency has been claimed
C3_Witness ==
  \E j \in JobIds :
    /\ processing_jobs[j].depends_on_job # NULL
    /\ processing_jobs[j].status = "running"

\* a pending job whose dependency (if any) is completed and which no other
\* claimer is in the middle of taking
PendingWithDependencyMet(j) ==
  /\ processing_jobs[j].status = "pending"
  /\ DependencySatisfied(j)
  /\ j \notin row_locks

\* C4: the job get_next_job selects is, among the pending jobs whose
\* dependency is completed, one with the lowest priority value and, among
\* those, the oldest creation time.
C4_LowestPriorityOldestFirst ==
  [][\A w \in Workers :
       (pc[w] = "idle" /\ pc'[w] = "claiming") =>
          /\ PendingWithDependencyMet(held'[w])
          /\ \A k \in JobIds :
               PendingWithDependencyMet(k) => ~OrderBefore(k, held'[w])]_vars

(***************************************************************************)
(* The pipeline: the orchestrator enqueues extract_text; a worker claims a *)
(* job with get_next_job, invokes the stage function of its job_type with  *)
(* the job's book and payload, and reports the function's outcome with     *)
(* complete_job.                                                           *)
(***************************************************************************)
\* DEFAULT_WORKFLOW_CONFIG.priorityLevel
priorityLevel == 5
\* p_priority: 5 in enqueueNextJob
NextJobPriority == 5
\* enqueueEnhancementJobs: const enhancementBatchSize = 5
enhancementBatchSize == 5
\* enqueueEnhancementJobs: Math.min(priority, 10)
PriorityCap == 10

\* the numbers of chapters a detection may yield: one batch, or more than one
ChapterCounts == {1, enhancementBatchSize + 1}

JobOf(w) == processing_jobs[held[w]]
BookOf(w) == JobOf(w).book_id

\* a stage function is invoked for the job the worker holds
Invoked(w, t) == pc[w] = "running" /\ JobOf(w).job_type = t

\* the orchestrator: initializeWorkflow, then (no full_workflow entry is ever
\* written, so checkFullWorkflowCache misses) enqueue_job('extract_text');
\* the result of the rpc is not inspected
SubmitBook(b) ==
  /\ books[b] = "pending"
  /\ books' = [books EXCEPT ![b] = "processing"]
  /\ processing_started_at' = [processing_started_at EXCEPT ![b] = now]
  /\ \E ok \in BOOLEAN :
       IF ok
       THEN enqueue_job(b, "extract_text", NoPayload, priorityLevel, NULL,
                        LastCreatedAt + 1)
       ELSE UNCHANGED processing_jobs
  /\ UNCHANGED <<row_locks, pc, held, processing_cache, chapters>>
  /\ UNCHANGED <<enhanceVars, statusVars, rowVars>>

\* enqueueNextJob(bookId, jobType, inputData): a failure is logged, not raised
enqueueNextJob(b, t, in, ok) ==
  IF ok
  THEN enqueue_job(b, t, in, NextJobPriority, NULL, LastCreatedAt + 1)
  ELSE UNCHANGED processing_jobs

\* storeInCache -> store_cached_result: a failure is logged, not raised
storeInCache(t, b, out, ok) ==
  IF ok
  THEN processing_cache' = [processing_cache EXCEPT ![t][b] = out]
  ELSE UNCHANGED processing_cache

\* update_processing_progress(p_book_id, p_stage, ...): the value of the column
\* books.processing_status after the call
update_processing_progress(b, p_stage) ==
  CASE p_stage = "completed" -> [books EXCEPT ![b] = "completed"]
    [] p_stage = "failed" -> [books EXCEPT ![b] = "failed"]
    [] OTHER -> books

(***************************************************************************)
(* extract-pdf-text                                                        *)
(***************************************************************************)
\* up to the cache check: books.processing_status = 'processing'; on a hit
\* the next job is enqueued and the function responds
ExtractPdfTextBegin(w) ==
  /\ Invoked(w, "extract_text")
  /\ books' = [books EXCEPT ![BookOf(w)] = "processing"]
  /\ processing_started_at' = [processing_started_at EXCEPT ![BookOf(w)] = now]
  /\ IF processing_cache["text_extraction"][BookOf(w)] # 0
     THEN /\ \E ok \in BOOLEAN :
               enqueueNextJob(BookOf(w), "detect_chapters", NoPayload, ok)
          /\ pc' = [pc EXCEPT ![w] = "responded_ok"]
     ELSE /\ pc' = [pc EXCEPT ![w] = "downloading"]
          /\ UNCHANGED processing_jobs
  /\ UNCHANGED <<row_locks, held, processing_cache, chapters>>
  /\ UNCHANGED <<enhanceVars, statusVars, rowVars>>

\* supabase.storage.download fails ("Failed to download PDF"): the catch block
\* marks the book failed
ExtractPdfTextDownloadFail(w) ==
  /\ pc[w] = "downloading"
  /\ books' = [books EXCEPT ![BookOf(w)] = "failed"]
  /\ pc' = [pc EXCEPT ![w] = "responded_error"]
  /\ UNCHANGED <<processing_jobs, row_locks, held, processing_cache, chapters>>
  /\ UNCHANGED <<enhanceVars, tableVars>>

\* the file is downloaded: extractTextWithProgress is called
ExtractPdfTextDownloaded(w) ==
  /\ pc[w] = "downloading"
  /\ pc' = [pc EXCEPT ![w] = "extracting"]
  /\ UNCHANGED <<processing_jobs, row_locks, held, pipelineVars>>
  /\ UNCHANGED <<enhanceVars, tableVars>>

\* the file holds no text that can be extracted ("No text could be extracted
\* from PDF"): the catch block marks the book failed
ExtractPdfTextFail(w) ==
  /\ pc[w] = "extracting"
  /\ books' = [books EXCEPT ![BookOf(w)] = "failed"]
  /\ pc' = [pc EXCEPT ![w] = "responded_error"]
  /\ UNCHANGED <<processing_jobs, row_locks, held, processing_cache, chapters>>
  /\ UNCHANGED <<enhanceVars, tableVars>>

\* the text is extracted: storeInCache, then enqueueNextJob
ExtractPdfTextFinish(w) ==
  /\ pc[w] = "extracting"
  /\ \E stored \in BOOLEAN : storeInCache("text_extraction", BookOf(w), 1, stored)
  /\ \E ok \in BOOLEAN : enqueueNextJob(BookOf(w), "detect_chapters", NoPayload, ok)
  /\ pc' = [pc EXCEPT ![w] = "responded_ok"]
  /\ UNCHANGED <<row_locks, held, books, chapters>>
  /\ UNCHANGED <<enhanceVars, tableVars>>

(***************************************************************************)
(* detect-chapters                                                         *)
(***************************************************************************)
DetectChaptersBegin(w) ==
  /\ Invoked(w, "detect_chapters")
  /\ IF processing_cache["chapter_detection"][BookOf(w)] # 0
     THEN /\ \E ok \in BOOLEAN :
               enqueueNextJob(BookOf(w), "store_chapters",
                 Payload(processing_cache["chapter_detection"][BookOf(w)], 0, 0), ok)
          /\ pc' = [pc EXCEPT ![w] = "responded_ok"]
     ELSE /\ pc' = [pc EXCEPT ![w] = "detecting"]
          /\ UNCHANGED processing_jobs
  /\ UNCHANGED <<row_locks, held, pipelineVars>>
  /\ UNCHANGED <<enhanceVars, tableVars>>

\* detection throws: the catch block only writes a progress record
DetectChaptersFail(w) ==
  /\ pc[w] = "detecting"
  /\ pc' = [pc EXCEPT ![w] = "responded_error"]
  /\ UNCHANGED <<processing_jobs, row_locks, held, pipelineVars>>
  /\ UNCHANGED <<enhanceVars, tableVars>>

\* n chapters are detected: storeInCache, then enqueueNextJob
DetectChaptersFinish(w) ==
  /\ pc[w] = "detecting"
  /\ \E n \in ChapterCounts :
       /\ \E stored \in BOOLEAN :
            storeInCache("chapter_detection", BookOf(w), n, stored)
       /\ \E ok \in BOOLEAN :
            enqueueNextJob(BookOf(w), "store_chapters", Payload(n, 0, 0), ok)
  /\ pc' = [pc EXCEPT ![w] = "responded_ok"]
  /\ UNCHANGED <<row_locks, held, books, chapters>>
  /\ UNCHANGED <<enhanceVars, tableVars>>

(***************************************************************************)
(* store-chapters                                                          *)
(***************************************************************************)
\* batches of enhancementBatchSize chapters
NumBatches(m) == (m + enhancementBatchSize - 1) \div enhancementBatchSize

BatchLength(m, i) ==
  IF i * enhancementBatchSize <= m THEN enhancementBatchSize
  ELSE m - (i - 1) * enhancementBatchSize

\* every batch with the priority of the first
BatchPriority_Flat(i) == NextJobPriority

\* priority = 5 + i for the batch of index i (from 0), capped
BatchPriority(i) ==
  IF NextJobPriority + (i - 1) < PriorityCap
  THEN NextJobPriority + (i - 1) ELSE PriorityCap

\* enqueueEnhancementJobs(bookId, insertedChapters): one job per batch; a
\* failure is logged, not raised
enqueueEnhancementJobs(b, m, ok) ==
  IF ok
  THEN processing_jobs' = processing_jobs \o
         [i \in 1..NumBatches(m) |->
            NewJob(b, "enhance_chapters",
                   Payload(BatchLength(m, i), i, NumBatches(m)),
                   BatchPriority(i), NULL, LastCreatedAt + i)]
  ELSE UNCHANGED processing_jobs

\* the request holds no chapters array, or no valid chapter: the catch block
\* marks the book failed
StoreChaptersFail(w) ==
  /\ Invoked(w, "store_chapters")
  /\ books' = [books EXCEPT ![BookOf(w)] = "failed"]
  /\ pc' = [pc EXCEPT ![w] = "responded_error"]
  /\ UNCHANGED <<processing_jobs, row_locks, held, processing_cache, chapters>>
  /\ UNCHANGED <<enhanceVars, tableVars>>

\* clearExistingChapters, insertChaptersInBatches (rows that fail to insert
\* are skipped), updateBookCompletionStatus, enqueueEnhancementJobs for the
\* inserted rows
StoreChaptersFinish(w) ==
  /\ Invoked(w, "store_chapters")
  /\ \E m \in {0, JobOf(w).input_data.chapters} :
       /\ chapters' = [chapters EXCEPT ![BookOf(w)] = m]
       /\ \E ok \in BOOLEAN : enqueueEnhancementJobs(BookOf(w), m, ok)
  /\ books' = [books EXCEPT ![BookOf(w)] = "completed"]
  /\ book_enhancement_status' =
       [book_enhancement_status EXCEPT ![BookOf(w)] = "pending"]
  /\ pc' = [pc EXCEPT ![w] = "responded_ok"]
  /\ UNCHANGED <<row_locks, held, processing_cache>>
  /\ UNCHANGED <<enhanceVars, overallStatus, processing_started_at, rowVars>>

(***************************************************************************)
(* enhance-chapters, as far as the queue and the book are concerned        *)
(***************************************************************************)
\* the batch is processed; after the last batch updateProgress('completed')
\* makes update_processing_progress set books.processing_status
EnhanceChaptersSucceed(w) ==
  /\ Invoked(w, "enhance_chapters")
  /\ books' = IF JobOf(w).input_data.batch_number = JobOf(w).input_data.total_batches
              THEN [books EXCEPT ![BookOf(w)] = "completed"]
              ELSE books
  /\ pc' = [pc EXCEPT ![w] = "responded_ok"]
  /\ UNCHANGED <<processing_jobs, row_locks, held, processing_cache, chapters>>
  /\ UNCHANGED <<enhanceVars, tableVars>>

\* a mutant of EnhanceErrorStage: the stage the orchestrators' catch blocks pass
EnhanceErrorStage_Failed == "failed"

\* the stage the catch block of enhance-chapters passes to updateProgress
EnhanceErrorStage == "enhancing_chapters"

\* the function throws: the catch block only writes a progress record
EnhanceChaptersFail(w) ==
  /\ Invoked(w, "enhance_chapters")
  /\ books' = update_processing_progress(BookOf(w), EnhanceErrorStage)
  /\ pc' = [pc EXCEPT ![w] = "responded_error"]
  /\ UNCHANGED <<processing_jobs, row_locks, held, processing_cache, chapters>>
  /\ UNCHANGED <<enhanceVars, tableVars>>

(***************************************************************************)
(* the worker reports the response of the stage function                   *)
(***************************************************************************)
ReportOutcome(w) ==
  /\ pc[w] \in {"responded_ok", "responded_error"}
  /\ complete_job(held[w], pc[w] = "responded_ok")
  /\ pc' = [pc EXCEPT ![w] = "idle"]
  /\ held' = [held EXCEPT ![w] = NULL]
  /\ UNCHANGED <<row_locks, pipelineVars>>
  /\ UNCHANGED <<enhanceVars, tableVars>>

(***************************************************************************)
(* SpecPipeline                                                            *)
(***************************************************************************)
\* an identical file may have been processed before: its cache entries exist
InitPipeline ==
  /\ processing_jobs = <<>>
  /\ row_locks = {}
  /\ pc = [w \in Workers |-> "idle"]
  /\ held = [w \in Workers |-> NULL]
  /\ books = [b \in Books |-> "pending"]
  /\ \E text \in [Books -> {0, 1}], det \in [Books -> {0} \cup ChapterCounts] :
       processing_cache = [t \in CacheTypes |->
                             IF t = "text_extraction" THEN text ELSE det]
  /\ chapters = [b \in Books |-> 0]
  /\ InitModule

NextPipeline ==
  \/ \E b \in Books : SubmitBook(b)
  \/ \E w \in Workers : GetNextJobSelect(w)
  \/ \E w \in Workers : GetNextJobCommit(w)
  \/ \E w \in Workers : ExtractPdfTextBegin(w)
  \/ \E w \in Workers : ExtractPdfTextDownloadFail(w)
  \/ \E w \in Workers : ExtractPdfTextDownloaded(w)
  \/ \E w \in Workers : ExtractPdfTextFail(w)
  \/ \E w \in Workers : ExtractPdfTextFinish(w)
  \/ \E w \in Workers : DetectChaptersBegin(w)
  \/ \E w \in Workers : DetectChaptersFail(w)
  \/ \E w \in Workers : DetectChaptersFinish(w)
  \/ \E w \in Workers : StoreChaptersFail(w)
  \/ \E w \in Workers : StoreChaptersFinish(w)
  \/ \E w \in Workers : EnhanceChaptersSucceed(w)
  \/ \E w \in Workers : EnhanceChaptersFail(w)
  \/ \E w \in Workers : ReportOutcome(w)

SpecPipeline == InitPipeline /\ [][NextPipeline]_vars

\* the stage that follows a job type
NextStage(t) ==
  CASE t = "extract_text" -> "detect_chapters"
    [] t = "detect_chapters" -> "store_chapters"
    [] t = "store_chapters" -> "enhance_chapters"
    [] OTHER -> "none"

\* the job can no longer be claimed and is not completed: its retries are spent
RetriesExhausted(j) ==
  /\ processing_jobs[j].status \in {"pending", "failed"}
  /\ processing_jobs[j].retry_count >= processing_jobs[j].max_retries

\* C5: whenever a job has exhausted its retries, the book it belongs to is
\* marked failed and no job of the following stage exists for that book.
C5_ExhaustedJobFailsBook ==
  \A j \in JobIds :
    RetriesExhausted(j) =>
      /\ books[processing_jobs[j].book_id] = "failed"
      /\ \A k \in JobIds :
           processing_jobs[k].book_id = processing_jobs[j].book_id
             => processing_jobs[k].job_type # NextStage(processing_jobs[j].job_type)

\* the jobs a step adds to the queue
Enqueued == {j \in 1..Len(processing_jobs') : j > Len(processing_jobs)}

\* the output of the stage before job type t is in the cache, or in the table
\* chapters, for book b
OutputPersisted(t, b) ==
  CASE t = "detect_chapters" -> processing_cache'["text_extraction"][b] # 0
    [] t = "store_chapters" -> processing_cache'["chapter_detection"][b] # 0
    [] t = "enhance_chapters" -> chapters'[b] > 0
    [] OTHER -> TRUE

\* C6: a job of stage N+1 is added to the queue only by a step after which the
\* output of stage N of that book is cached (extract, detect) or stored
\* (chapters).
C6_EnqueueAfterOutputPersisted ==
  [][\A j \in Enqueued :
       OutputPersisted(processing_jobs'[j].job_type, processing_jobs'[j].book_id)]_vars

\* worker w holds a job of type t and takes a step
StepOf(w, t) ==
  /\ pc[w] \in {"running", "downloading", "extracting", "detecting",
                "responded_ok", "responded_error"}
  /\ JobOf(w).job_type = t
  /\ pc'[w] # pc[w]

\* C12: no step of a worker that holds an enhance_chapters job, the failure of
\* the function and the report of a failed job included, sets the
\* processing_status of the job's book to failed.
C12_EnhancementFailureKeepsBook ==
  [][\A w \in Workers :
       StepOf(w, "enhance_chapters") =>
         (books'[BookOf(w)] = "failed" => books[BookOf(w)] = "failed")]_vars

\* an enhance_chapters job has failed until its retries were spent, and its
\* book is not failed
C12_Witness ==
  \E j \in JobIds :
    /\ processing_jobs[j].job_type = "enhance_chapters"
    /\ RetriesExhausted(j)
    /\ books[processing_jobs[j].book_id] # "failed"

\* the failure worker w reports will leave its job without a further attempt
LastAttempt(w) == JobOf(w).retry_count + 1 >= JobOf(w).max_retries

\* the step is the detection of an input error: a file without text, or a
\* request of store-chapters without a valid chapter
InputError(w) ==
  \/ pc[w] = "extracting"
  \/ pc[w] = "running" /\ JobOf(w).job_type = "store_chapters"

\* C13: a book becomes failed only in a step of a worker that detects an input
\* error or whose job is at its last attempt; a failed download with attempts
\* left does not make the book failed. (No step of the pipeline is a workflow
\* timeout.)
C13_FailedOnlyWhenExhaustedOrInputError ==
  [][\A b \in Books :
       (books[b] # "failed" /\ books'[b] = "failed") =>
         \E w \in Workers :
           /\ pc[w] # "idle" /\ pc[w] # "claiming"
           /\ pc'[w] # pc[w]
           /\ BookOf(w) = b
           /\ (InputError(w) \/ LastAttempt(w))]_vars

\* WorkflowConfig.timeoutSeconds (900 in DEFAULT_WORKFLOW_CONFIG), in ticks
timeoutSeconds == 2

\* the time for which the workflow of book b has run
WorkflowAge(b) == now - processing_started_at[b]

\* C14: no document is still in processing when its workflow has run for more
\* than timeoutSeconds: by then it has been marked failed (or has finished).
C14_TimedOutWorkflowFailed ==
  \A b \in Books : WorkflowAge(b) > timeoutSeconds => books[b] # "processing"

(***************************************************************************)
(* enhance-chapters: invocations that share the module-level counters.     *)
(* A step runs from one await to the next.                                 *)
(***************************************************************************)
\* the lengths of the batches of concurrent invocations
BatchLengths == {1, 2}

\* what the external API may answer: a completion (parsed, or replaced by the
\* fallback), status 429, a status >= 500, or another error that is thrown
Outcomes == {"result", "rate_limited", "server_error", "error"}

RECURSIVE Pow(_, _)
Pow(b, e) == IF e = 0 THEN 1 ELSE b * Pow(b, e - 1)

\* await new Promise(resolve => setTimeout(resolve, d)), to resume at position p
Sleep(rec, p, d) ==
  [rec EXCEPT !.pc = p, !.wakeAt = now + (IF d > 0 THEN d ELSE 0)]

TimerFired(r, p) == request[r].pc = p /\ now >= request[r].wakeAt

\* serve, up to the first iteration of the loop of enhanceChaptersWithRateLimit
\* for a batch of n chapters; invocations are numbered as they arrive
ReceiveRequest(r, n) ==
  /\ request[r].pc = "none"
  /\ \A q \in Requests : q < r => request[q].pc # "none"
  /\ request' = [request EXCEPT ![r] = [NoRequest EXCEPT !.pc = "chapter",
                                                        !.chapters = n, !.i = 1]]
  /\ enhancement_status' =
       [enhancement_status EXCEPT ![r] = [c \in 1..n |-> "pending"]]
  /\ UNCHANGED <<now, activeRequests, requestCounts, lastRequestTime, nullResults,
                 recentCalls, hourCalls, queueVars, pipelineVars, tableVars>>

\* fetch(...) is called: the request is in flight until the response arrives
Fetch(r, rec) ==
  /\ request' = [request EXCEPT ![r] = [rec EXCEPT !.pc = "fetching", !.wakeAt = 0]]
  /\ recentCalls' = [recentCalls EXCEPT ![1] = @ + 1]
  /\ hourCalls' = hourCalls + 1

(***************************************************************************)
(* waitForRateLimit, from each of its awaits on                            *)
(***************************************************************************)
\* "Update counters"; waitForRateLimit returns and enhanceChapterWithAI makes
\* its first call
UpdateCounters(r, rec, rc) ==
  /\ activeRequests' = activeRequests + 1
  /\ requestCounts' = [minute |-> [rc.minute EXCEPT !.count = @ + 1],
                       hour |-> [rc.hour EXCEPT !.count = @ + 1]]
  /\ lastRequestTime' = now
  /\ Fetch(r, [rec EXCEPT !.retryCount = 0, !.now = 0])

\* one of the awaits of waitForRateLimit
Wait(r, rec, rc, p, d) ==
  /\ request' = [request EXCEPT ![r] = Sleep(rec, p, d)]
  /\ requestCounts' = rc
  /\ UNCHANGED <<activeRequests, lastRequestTime, recentCalls, hourCalls>>

\* "Ensure minimum delay between requests"
MinimumDelay(r, rec, rc) ==
  IF rec.now - lastRequestTime < baseDelay
  THEN Wait(r, rec, rc, "min_delay", baseDelay - (rec.now - lastRequestTime))
  ELSE UpdateCounters(r, rec, rc)

HourLimit(r, rec, rc) ==
  IF rc.hour.count >= requestsPerHour
  THEN Wait(r, rec, rc, "hour_wait", rc.hour.resetTime - rec.now)
  ELSE MinimumDelay(r, rec, rc)

MinuteLimit(r, rec, rc) ==
  IF rc.minute.count >= requestsPerMinute
  THEN Wait(r, rec, rc, "minute_wait", rc.minute.resetTime - rec.now)
  ELSE HourLimit(r, rec, rc)

\* while (activeRequests >= RATE_LIMIT.maxConcurrentRequests) await ...
ConcurrencyLimit(r, rec, rc) ==
  IF activeRequests >= maxConcurrentRequests
  THEN Wait(r, rec, rc, "poll", PollDelay)
  ELSE MinuteLimit(r, rec, rc)

\* "Reset counters if time windows have passed"
ResetWindow(c, window) ==
  IF now >= c.resetTime THEN [count |-> 0, resetTime |-> now + window] ELSE c

\* the call of waitForRateLimit for chapter i: const now = Date.now(), ...
WaitForRateLimit(r) ==
  /\ request[r].pc = "chapter"
  /\ ConcurrencyLimit(r, [request[r] EXCEPT !.now = now],
                      [minute |-> ResetWindow(requestCounts.minute, MinuteWindow),
                       hour |-> ResetWindow(requestCounts.hour, HourWindow)])
  /\ UNCHANGED <<now, enhancement_status, nullResults, queueVars, pipelineVars, tableVars>>

\* a timer of waitForRateLimit fires: the function goes on after that await
ResumeWaitForRateLimit(r) ==
  /\ \/ TimerFired(r, "poll") /\ ConcurrencyLimit(r, request[r], requestCounts)
     \/ TimerFired(r, "minute_wait") /\ HourLimit(r, request[r], requestCounts)
     \/ TimerFired(r, "hour_wait") /\ MinimumDelay(r, request[r], requestCounts)
     \/ TimerFired(r, "min_delay") /\ UpdateCounters(r, request[r], requestCounts)
  /\ UNCHANGED <<now, enhancement_status, nullResults, queueVars, pipelineVars, tableVars>>

(***************************************************************************)
(* books.enhancement_status: the invocations are the batches of one        *)
(* document, es is the column chapters.enhancement_status of its rows      *)
(***************************************************************************)
\* the bookId of the requests of enhance-chapters
EnhancedBook == 1

ChapterRows(es) == {rc \in Requests \X (1..enhancementBatchSize) : rc[2] <= Len(es[rc[1]])}

\* SELECT COUNT(*) FROM chapters WHERE book_id = ... AND enhancement_status IN S
CountChapters(es, S) == Cardinality({rc \in ChapterRows(es) : es[rc[1]][rc[2]] \in S})

ChapterStatuses == {"pending", "processing", "completed", "failed", "skipped"}

\* the trigger update_book_enhancement_status_trigger, AFTER UPDATE ON chapters
\* WHEN (NEW.enhancement_status IS DISTINCT FROM OLD.enhancement_status)
update_book_enhancement_status(es) ==
  CASE CountChapters(es, {"failed"}) > 0 -> "failed"
    [] CountChapters(es, {"pending", "processing"}) > 0 -> "processing"
    [] CountChapters(es, {"completed"}) = CountChapters(es, ChapterStatuses) -> "completed"
    [] OTHER -> "processing"

\* updateBookEnhancementStatus: let overallStatus
OverallStatus(es) ==
  LET totalChapters == CountChapters(es, ChapterStatuses)
      completed == CountChapters(es, {"completed"})
      failed == CountChapters(es, {"failed"})
  IN  IF completed = totalChapters THEN "completed"
      ELSE IF completed + failed = totalChapters
           THEN (IF completed > failed THEN "completed" ELSE "failed")
           ELSE "processing"

(***************************************************************************)
(* enhanceChaptersWithRateLimit and enhanceChapterWithAI                   *)
(***************************************************************************)
\* const delay = RATE_LIMIT.baseDelay + (i * 200), for the iteration i from 0
ProgressiveDelay(i) == baseDelay + ((i - 1) * 200) \div 1000

\* the end of an iteration: the progressive delay before the next chapter, or
\* the end of the loop
NextChapter(rec) ==
  IF rec.i < rec.chapters
  THEN Sleep(rec, "delay", ProgressiveDelay(rec.i))
  ELSE [rec EXCEPT !.pc = "done", !.wakeAt = 0]

\* a mutant of ContinueAfterFailure: a chapter without enhancement ends the batch
ContinueAfterFailure_Abort(rec) == [rec EXCEPT !.pc = "done", !.wakeAt = 0]

\* enhancement is null: results.failedEnhancements++, and the loop goes on
ContinueAfterFailure(rec) == NextChapter(rec)

\* enhanceChapterWithAI returns null
ReturnNull(r, rec) ==
  /\ nullResults' = [nullResults EXCEPT ![r] = @ \cup {rec.i}]
  /\ request' = [request EXCEPT ![r] = ContinueAfterFailure(rec)]

\* the response of the external API arrives
FetchResponds(r) ==
  /\ request[r].pc = "fetching"
  /\ \E o \in Outcomes :
       LET rec == request[r]
           retried == [rec EXCEPT !.retryCount = @ + 1]
           backoffDelay == baseDelay * Pow(backoffMultiplier, rec.retryCount)
       IN  CASE o = "result" ->
                  \* return ...; finally { activeRequests-- }; updateChapterInDB
                  /\ activeRequests' = activeRequests - 1
                  /\ request' = [request EXCEPT ![r] = [rec EXCEPT !.pc = "updating"]]
                  /\ UNCHANGED nullResults
             [] o = "rate_limited" ->
                  /\ request' = [request EXCEPT ![r] = Sleep(retried, "backoff", backoffDelay)]
                  /\ UNCHANGED <<activeRequests, nullResults>>
             [] o = "server_error" ->
                  /\ request' = [request EXCEPT ![r] =
                                   Sleep(retried, "backoff", ServerErrorDelay)]
                  /\ UNCHANGED <<activeRequests, nullResults>>
             [] o = "error" ->
                  IF retried.retryCount > maxRetries
                  THEN /\ activeRequests' = activeRequests - 1
                       /\ ReturnNull(r, retried)
                  ELSE /\ request' = [request EXCEPT ![r] =
                                        Sleep(retried, "backoff", backoffDelay)]
                       /\ UNCHANGED <<activeRequests, nullResults>>
  /\ UNCHANGED <<now, requestCounts, lastRequestTime, recentCalls, hourCalls,
                 enhancement_status, queueVars, pipelineVars, tableVars>>

\* the backoff is over: finally { activeRequests-- }, then the next turn of
\* while (retryCount <= RATE_LIMIT.maxRetries), or return null after the loop
AfterBackoff(r) ==
  /\ TimerFired(r, "backoff")
  /\ activeRequests' = activeRequests - 1
  /\ IF request[r].retryCount <= maxRetries
     THEN Fetch(r, request[r]) /\ UNCHANGED nullResults
     ELSE ReturnNull(r, request[r]) /\ UNCHANGED <<recentCalls, hourCalls>>
  /\ UNCHANGED <<now, requestCounts, lastRequestTime, enhancement_status,
                 queueVars, pipelineVars, tableVars>>

\* updateChapterInDB writes enhancement_status 'completed'; if it throws, the
\* catch block calls markChapterEnhancementFailed
UpdateChapterInDB(r) ==
  /\ request[r].pc = "updating"
  /\ \E ok \in BOOLEAN :
       enhancement_status' =
         [enhancement_status EXCEPT ![r][request[r].i] =
            IF ok THEN "completed" ELSE "failed"]
  /\ book_enhancement_status' =
       [book_enhancement_status EXCEPT
          ![EnhancedBook] = update_book_enhancement_status(enhancement_status')]
  /\ request' = [request EXCEPT ![r] = NextChapter(request[r])]
  /\ UNCHANGED <<now, activeRequests, requestCounts, lastRequestTime, nullResults,
                 recentCalls, hourCalls, overallStatus, processing_started_at,
                 rowVars, queueVars, pipelineVars>>

\* the progressive delay is over: the next iteration begins
AfterDelay(r) ==
  /\ TimerFired(r, "delay")
  /\ request' = [request EXCEPT ![r] = [@ EXCEPT !.pc = "chapter", !.i = @ + 1,
                                                 !.wakeAt = 0]]
  /\ UNCHANGED <<now, activeRequests, requestCounts, lastRequestTime,
                 enhancement_status, nullResults, recentCalls, hourCalls, queueVars,
                 pipelineVars, tableVars>>

\* the positions at which an invocation waits for a timer
Sleeping == {"poll", "minute_wait", "hour_wait", "min_delay", "backoff", "delay"}

\* the positions at which an invocation waits for the database, which answers
\* within the tick
Querying == {"chapter", "updating"}

\* time passes when no timer is due and no database call is pending
Tick ==
  /\ now < MaxTime
  /\ \A r \in Requests :
       /\ request[r].pc \in Sleeping => request[r].wakeAt > now
       /\ request[r].pc \notin Querying
  /\ now' = now + 1
  /\ recentCalls' = [k \in 1..MinuteWindow |-> IF k = 1 THEN 0 ELSE recentCalls[k - 1]]
  /\ UNCHANGED <<activeRequests, requestCounts, lastRequestTime, request,
                 enhancement_status, nullResults, hourCalls, queueVars, pipelineVars, tableVars>>

(***************************************************************************)
(* SpecEnhance                                                             *)
(***************************************************************************)
InitEnhance ==
  /\ processing_jobs = <<>>
  /\ row_locks = {}
  /\ pc = [w \in Workers |-> "idle"]
  /\ held = [w \in Workers |-> NULL]
  /\ InitStore
  /\ InitModule

NextEnhance ==
  \/ \E r \in Requests, n \in BatchLengths : ReceiveRequest(r, n)
  \/ \E r \in Requests : WaitForRateLimit(r)
  \/ \E r \in Requests : ResumeWaitForRateLimit(r)
  \/ \E r \in Requests : FetchResponds(r)
  \/ \E r \in Requests : AfterBackoff(r)
  \/ \E r \in Requests : UpdateChapterInDB(r)
  \/ \E r \in Requests : AfterDelay(r)
  \/ Tick

SpecEnhance == InitEnhance /\ [][NextEnhance]_vars

(***************************************************************************)
(* SpecBatch: an invocation for a full batch of enhancementBatchSize       *)
(* chapters, next to invocations for single chapters                       *)
(***************************************************************************)
NextBatch ==
  \/ ReceiveRequest(1, enhancementBatchSize)
  \/ \E r \in Requests \ {1} : ReceiveRequest(r, 1)
  \/ \E r \in Requests : WaitForRateLimit(r)
  \/ \E r \in Requests : ResumeWaitForRateLimit(r)
  \/ \E r \in Requests : FetchResponds(r)
  \/ \E r \in Requests : AfterBackoff(r)
  \/ \E r \in Requests : UpdateChapterInDB(r)
  \/ \E r \in Requests : AfterDelay(r)
  \/ Tick

SpecBatch == InitEnhance /\ [][NextBatch]_vars

(***************************************************************************)
(* Properties of the enhancement worker                                    *)
(***************************************************************************)
\* the invocations whose call of the external API is in flight
InFlight == {r \in Requests : request[r].pc = "fetching"}

\* C7: the number of calls of the external API in flight never exceeds
\* maxConcurrentRequests.
C7_ConcurrencyCeiling ==
  Cardinality(InFlight) <= maxConcurrentRequests

RECURSIVE SumSeq(_)
SumSeq(q) == IF q = <<>> THEN 0 ELSE Head(q) + SumSeq(Tail(q))

\* calls issued in the window of MinuteWindow ticks that ends now
CallsInMinute == SumSeq(recentCalls)

\* C8: no window of one minute holds more than requestsPerMinute calls of the
\* external API and no window of one hour more than requestsPerHour (the hour
\* window is longer than the time modelled, so it holds every call).
C8_CallBudget ==
  /\ CallsInMinute <= requestsPerMinute
  /\ hourCalls <= requestsPerHour

\* the invocation has left the loop of enhanceChaptersWithRateLimit
BatchDone(r) == request[r].pc = "done"

\* C9: when a batch of enhancementBatchSize chapters is done and the call
\* failed for good for exactly one chapter (no other chapter failed), the four
\* other chapters are completed.
C9_BatchIsolation ==
  \A r \in Requests :
    ( /\ BatchDone(r)
      /\ request[r].chapters = enhancementBatchSize
      /\ Cardinality(nullResults[r]) = 1
      /\ \A c \in 1..request[r].chapters : enhancement_status[r][c] # "failed" )
    => \A c \in (1..request[r].chapters) \ nullResults[r] :
         enhancement_status[r][c] = "completed"

\* a full batch is done with one chapter given up and four completed
C9_Witness ==
  \E r \in Requests :
    /\ BatchDone(r)
    /\ request[r].chapters = enhancementBatchSize
    /\ Cardinality(nullResults[r]) = 1
    /\ Cardinality({c \in 1..request[r].chapters :
                      enhancement_status[r][c] = "completed"}) = enhancementBatchSize - 1

\* C10: when the batch is done, a chapter whose call failed on every attempt
\* has enhancement_status failed.
C10_ExhaustedChapterFailed ==
  \A r \in Requests :
    BatchDone(r) => \A c \in nullResults[r] : enhancement_status[r][c] = "failed"

(***************************************************************************)
(* SpecStatus: the chapters of a document are stored; their enhancement    *)
(* status is written by the batches, and the invocation of the last batch  *)
(* runs updateBookEnhancementStatus                                        *)
(***************************************************************************)
\* updateChapterInDB (completed) or markChapterEnhancementFailed (failed) on
\* chapter c of batch r; the trigger on chapters then updates the book
SetEnhancementStatus(r, c, s) ==
  /\ c \in 1..Len(enhancement_status[r])
  /\ enhancement_status[r][c] # s
  /\ enhancement_status' = [enhancement_status EXCEPT ![r][c] = s]
  /\ book_enhancement_status' =
       [book_enhancement_status EXCEPT
          ![EnhancedBook] = update_book_enhancement_status(enhancement_status')]
  /\ UNCHANGED <<now, activeRequests, requestCounts, lastRequestTime, request,
                 nullResults, recentCalls, hourCalls, overallStatus,
                 processing_started_at, rowVars, queueVars, pipelineVars>>

\* updateBookEnhancementStatus: the select of the chapters' statuses and the
\* computation of overallStatus
UpdateBookEnhancementStatusSelect ==
  /\ overallStatus = "none"
  /\ overallStatus' = OverallStatus(enhancement_status)
  /\ UNCHANGED <<enhanceVars, book_enhancement_status, processing_started_at,
                 rowVars, queueVars, pipelineVars>>

\* updateBookEnhancementStatus: the update of books
UpdateBookEnhancementStatusUpdate ==
  /\ overallStatus # "none"
  /\ book_enhancement_status' =
       [book_enhancement_status EXCEPT ![EnhancedBook] = overallStatus]
  /\ overallStatus' = "none"
  /\ UNCHANGED <<enhanceVars, processing_started_at, rowVars, queueVars,
                 pipelineVars>>

\* store-chapters has inserted the rows: enhancement_status DEFAULT 'pending'
InitStatus ==
  /\ processing_jobs = <<>>
  /\ row_locks = {}
  /\ pc = [w \in Workers |-> "idle"]
  /\ held = [w \in Workers |-> NULL]
  /\ InitStore
  /\ now = 0
  /\ activeRequests = 0
  /\ requestCounts = [minute |-> [count |-> 0, resetTime |-> MinuteWindow],
                      hour |-> [count |-> 0, resetTime |-> HourWindow]]
  /\ lastRequestTime = LongAgo
  /\ request = [r \in Requests |-> NoRequest]
  /\ \E n \in [Requests -> BatchLengths] :
       enhancement_status = [r \in Requests |-> [c \in 1..n[r] |-> "pending"]]
  /\ nullResults = [r \in Requests |-> {}]
  /\ recentCalls = [k \in 1..MinuteWindow |-> 0]
  /\ hourCalls = 0
  /\ InitTables

NextStatus ==
  \/ \E r \in Requests, c \in 1..enhancementBatchSize, s \in {"completed", "failed"} :
       SetEnhancementStatus(r, c, s)
  \/ UpdateBookEnhancementStatusSelect
  \/ UpdateBookEnhancementStatusUpdate

SpecStatus == InitStatus /\ [][NextStatus]_vars

\* the aggregate the status of the document is said to be
AggregateStatus(es) ==
  LET totalChapters == CountChapters(es, ChapterStatuses)
      completed == CountChapters(es, {"completed"})
      failed == CountChapters(es, {"failed"})
  IN  IF completed = totalChapters THEN "completed"
      ELSE IF completed + failed = totalChapters /\ failed > completed THEN "failed"
      ELSE "processing"

\* C11: the status updateBookEnhancementStatus computes for the document is
\* completed if all chapters are completed, failed if every chapter is
\* completed or failed and the failed ones outnumber the completed ones, and
\* processing in every other case.
C11_AggregateEnhancementStatus ==
  [][(overallStatus = "none" /\ overallStatus' # "none")
       => overallStatus' = AggregateStatus(enhancement_status)]_vars

(***************************************************************************)
(* SpecWorkflow: the pipeline while time passes. Nothing in the code reads *)
(* timeoutSeconds, and no step of the code is taken because time passed.   *)
(***************************************************************************)
\* time is followed until the timeout of a workflow started at 0 has elapsed
WorkflowTick == now <= timeoutSeconds /\ Tick

NextWorkflow ==
  \/ NextPipeline
  \/ WorkflowTick

SpecWorkflow == InitPipeline /\ [][NextWorkflow]_vars

(***************************************************************************)
(* SpecStore: store-chapters, one step per await; the rows of chapters are *)
(* followed one by one. (The pipeline above follows only their number.)    *)
(***************************************************************************)
\* the most chapters validateChapters keeps of a request
MaxChapters == 3
\* insertChaptersInBatches: const batchSize = 10
batchSize == 10

\* validateChapters: wordCount = content.split(/\s+/).length of the k-th
\* valid chapter of a request (at least 50 words)
WordCount(k) == 100 * k + 50

\* Math.ceil(wordCount / 200)
WordsPerMinute == 200
ReadingTime(wordCount) == (wordCount + WordsPerMinute - 1) \div WordsPerMinute

\* prepareChaptersForDB: chapter_number: i + 1, part_number: 1, word_count,
\* reading_time_minutes, metadata.stored_at: the time of the invocation r
ChapterForDB(k, r) ==
  [chapter_number |-> k, part_number |-> 1, word_count |-> WordCount(k),
   reading_time_minutes |-> ReadingTime(WordCount(k)), stored_at |-> r]

\* calculateBookStats(validatedChapters) for n validated chapters
RECURSIVE calculateBookStats(_)
calculateBookStats(n) ==
  IF n = 0 THEN [totalWordCount |-> 0, totalReadingTime |-> 0]
  ELSE [totalWordCount |-> calculateBookStats(n - 1).totalWordCount + WordCount(n),
        totalReadingTime |-> calculateBookStats(n - 1).totalReadingTime
                               + ReadingTime(WordCount(n))]

\* UNIQUE (book_id, chapter_number, part_number)
unique_book_chapter(rows) ==
  \A x, y \in rows :
    (x.chapter_number = y.chapter_number /\ x.part_number = y.part_number) => x = y

\* the other locals are unchanged while the handler of r goes on
StoreUnchanged ==
  UNCHANGED <<row_locks, pc, held, processing_cache, enhanceVars, overallStatus,
              processing_started_at, cacheVars, processing_progress, stageVars>>

\* serve, up to clearExistingChapters: the request for book b holds n valid
\* chapters; with none, 'No valid chapters found' is thrown and the catch
\* block marks the book failed. Invocations are numbered as they arrive.
StoreChaptersReceive(r, b, n) ==
  /\ store[r].pc = "none"
  /\ \A q \in StoreRuns : q < r => store[q].pc # "none"
  /\ LET rec == [NoStoreRun EXCEPT
                   !.book = b, !.chapters = n,
                   !.rerun = \A q \in StoreRuns : q < r => store[q].pc = "done"]
     IN  IF n = 0
         THEN /\ store' = [store EXCEPT ![r] = [rec EXCEPT !.pc = "done"]]
              /\ books' = [books EXCEPT ![b] = "failed"]
         ELSE /\ store' = [store EXCEPT ![r] = [rec EXCEPT !.pc = "clearing"]]
              /\ UNCHANGED books
  /\ UNCHANGED <<processing_jobs, chapters, chapter_rows, book_enhancement_status,
                 book_totals>>
  /\ StoreUnchanged

\* the rows of book b become rows
WriteChapters(b, rows) ==
  /\ chapter_rows' = [chapter_rows EXCEPT ![b] = rows]
  /\ chapters' = [chapters EXCEPT ![b] = Cardinality(rows)]

\* clearExistingChapters: DELETE FROM chapters WHERE book_id = ...; an error is
\* logged and the handler goes on
ClearExistingChapters(r) ==
  /\ store[r].pc = "clearing"
  /\ \E ok \in BOOLEAN :
       IF ok THEN WriteChapters(store[r].book, {})
       ELSE UNCHANGED <<chapters, chapter_rows>>
  /\ store' = [store EXCEPT ![r] = [@ EXCEPT !.pc = "batch", !.i = 1]]
  /\ UNCHANGED <<processing_jobs, books, book_enhancement_status, book_totals>>
  /\ StoreUnchanged

\* chapters.slice(i, i + batchSize), i counted from 1
Batch(rec) == {k \in 1..rec.chapters : rec.i <= k /\ k < rec.i + batchSize}

\* the end of a turn of the loop over the batches
NextBatchOrFinish(rec) ==
  IF rec.i + batchSize <= rec.chapters
  THEN [rec EXCEPT !.pc = "batch", !.i = @ + batchSize, !.k = 0]
  ELSE [rec EXCEPT !.pc = "finishing", !.k = 0]

\* insert(batch): all rows of the batch are inserted, or (an error, or a row
\* that breaks the unique constraint) none is and the rows are tried one by one
InsertBatch(r) ==
  /\ store[r].pc = "batch"
  /\ LET rec == store[r]
         rows == chapter_rows[rec.book] \cup {ChapterForDB(k, r) : k \in Batch(rec)}
     IN  \E ok \in BOOLEAN :
           IF ok /\ unique_book_chapter(rows)
           THEN /\ WriteChapters(rec.book, rows)
                /\ store' = [store EXCEPT ![r] =
                     NextBatchOrFinish([rec EXCEPT
                                          !.inserted = @ + Cardinality(Batch(rec))])]
           ELSE /\ UNCHANGED <<chapters, chapter_rows>>
                /\ store' = [store EXCEPT ![r] = [rec EXCEPT !.pc = "single", !.k = rec.i]]
  /\ UNCHANGED <<processing_jobs, books, book_enhancement_status, book_totals>>
  /\ StoreUnchanged

\* insert([chapter]): a row that is not inserted is logged and skipped
InsertSingle(r) ==
  /\ store[r].pc = "single"
  /\ LET rec == store[r]
         rows == chapter_rows[rec.book] \cup {ChapterForDB(rec.k, r)}
         next(c) == IF rec.k + 1 \in Batch(rec)
                    THEN [rec EXCEPT !.k = @ + 1, !.inserted = @ + c]
                    ELSE NextBatchOrFinish([rec EXCEPT !.inserted = @ + c])
     IN  \E ok \in BOOLEAN :
           IF ok /\ unique_book_chapter(rows)
           THEN /\ WriteChapters(rec.book, rows)
                /\ store' = [store EXCEPT ![r] = next(1)]
           ELSE /\ UNCHANGED <<chapters, chapter_rows>>
                /\ store' = [store EXCEPT ![r] = next(0)]
  /\ UNCHANGED <<processing_jobs, books, book_enhancement_status, book_totals>>
  /\ StoreUnchanged

\* calculateBookStats(validatedChapters), updateBookCompletionStatus,
\* enqueueEnhancementJobs for the inserted rows, and the response
StoreChaptersRespond(r) ==
  /\ store[r].pc = "finishing"
  /\ books' = [books EXCEPT ![store[r].book] = "completed"]
  /\ book_totals' = [book_totals EXCEPT ![store[r].book] =
       [total_word_count |-> calculateBookStats(store[r].chapters).totalWordCount,
        estimated_total_reading_time |->
          calculateBookStats(store[r].chapters).totalReadingTime]]
  /\ book_enhancement_status' =
       [book_enhancement_status EXCEPT ![store[r].book] = "pending"]
  /\ \E ok \in BOOLEAN : enqueueEnhancementJobs(store[r].book, store[r].inserted, ok)
  /\ store' = [store EXCEPT ![r] = [@ EXCEPT !.pc = "done"]]
  /\ UNCHANGED <<chapters, chapter_rows>>
  /\ StoreUnchanged

NextStore ==
  \/ \E r \in StoreRuns, b \in Books, n \in 0..MaxChapters : StoreChaptersReceive(r, b, n)
  \/ \E r \in StoreRuns : ClearExistingChapters(r)
  \/ \E r \in StoreRuns : InsertBatch(r)
  \/ \E r \in StoreRuns : InsertSingle(r)
  \/ \E r \in StoreRuns : StoreChaptersRespond(r)

SpecStore == InitEnhance /\ [][NextStore]_vars

\* no invocation of store-chapters for book b is under way
StoreIdle(b) ==
  \A r \in StoreRuns : store[r].pc \in {"none", "done"} \/ store[r].book # b

ChapterNumbers(b) == {x.chapter_number : x \in chapter_rows[b]}

\* C15: whenever no store-chapters is under way for a document, the chapter
\* numbers of its rows are 1, 2, ..., without a gap, and no two rows have the
\* same chapter number and part number.
C15_ChapterNumbersContiguous ==
  \A b \in Books :
    StoreIdle(b) =>
      /\ ChapterNumbers(b) = 1..Cardinality(ChapterNumbers(b))
      /\ unique_book_chapter(chapter_rows[b])

\* the sum of field f over the rows
RECURSIVE SumOfRows(_, _)
SumOfRows(rows, f) ==
  IF rows = {} THEN 0
  ELSE LET x == CHOOSE y \in rows : TRUE IN x[f] + SumOfRows(rows \ {x}, f)

\* C23: when store-chapters has completed a document, the totals on the
\* document are the sums of word_count and of reading_time_minutes over the
\* rows of chapters of that document.
C23_BookTotalsEqualChapterSums ==
  \A b \in Books :
    (StoreIdle(b) /\ books[b] = "completed") =>
      /\ book_totals[b].total_word_count = SumOfRows(chapter_rows[b], "word_count")
      /\ book_totals[b].estimated_total_reading_time =
           SumOfRows(chapter_rows[b], "reading_time_minutes")

\* C16: when store-chapters has run again for a document, after an earlier
\* run was over and with the same chapters, the rows of the document are
\* exactly the rows of the later run: none of the earlier run is left, none
\* is missing and none is there twice.
C16_RerunReplacesChapters ==
  \A r \in StoreRuns \ {1} :
    ( /\ store[r].pc = "done"
      /\ store[r].rerun
      /\ store[r].chapters > 0
      /\ store[r - 1].book = store[r].book
      /\ store[r - 1].chapters = store[r].chapters
      /\ StoreIdle(store[r].book)
      /\ \A q \in StoreRuns : q > r => store[q].pc = "none" )
    => chapter_rows[store[r].book] =
         {ChapterForDB(k, r) : k \in 1..store[r].chapters}

(***************************************************************************)
(* SpecResubmit: the pipeline when a document that has reached a terminal  *)
(* state is submitted to the orchestrator again. The pipeline is followed  *)
(* until the last submission is enqueued, and from then on the claims of   *)
(* jobs only.                                                              *)
(***************************************************************************)
\* the submissions of one document that are followed
MaxSubmissions == 2

\* the extract_text jobs of book b: one per submission that was enqueued
Submissions(b) ==
  {j \in JobIds : processing_jobs[j].book_id = b
                  /\ processing_jobs[j].job_type = "extract_text"}

\* the orchestrator is called again for book b: serve does what it does for a
\* first submission (initializeWorkflow, enqueue_job('extract_text'))
ResubmitBook(b) ==
  /\ books[b] \in {"completed", "failed"}
  /\ Cardinality(Submissions(b)) < MaxSubmissions
  /\ books' = [books EXCEPT ![b] = "processing"]
  /\ processing_started_at' = [processing_started_at EXCEPT ![b] = now]
  /\ \E ok \in BOOLEAN :
       IF ok
       THEN enqueue_job(b, "extract_text", NoPayload, priorityLevel, NULL,
                        LastCreatedAt + 1)
       ELSE UNCHANGED processing_jobs
  /\ UNCHANGED <<row_locks, pc, held, processing_cache, chapters>>
  /\ UNCHANGED <<enhanceVars, statusVars, rowVars>>

\* the last submission that is followed has been enqueued
LastSubmissionEnqueued ==
  \E b \in Books : Cardinality(Submissions(b)) >= MaxSubmissions

NextResubmit ==
  \/ ~LastSubmissionEnqueued /\ NextPipeline
  \/ \E b \in Books : ResubmitBook(b)
  \/ LastSubmissionEnqueued /\ \E w \in Workers : GetNextJobSelect(w)
  \/ LastSubmissionEnqueued /\ \E w \in Workers : GetNextJobCommit(w)

SpecResubmit == InitPipeline /\ [][NextResubmit]_vars

\* the step is a submission of book b, which was in a terminal state
Resubmitted(b) ==
  /\ books[b] \in {"completed", "failed"}
  /\ books'[b] = "processing"
  /\ pc' = pc

\* C17: after the step that submits a document again, the document has no
\* chapter and none of the jobs it had before can be claimed.
C17_ResubmissionClearsChaptersAndJobs ==
  [][\A b \in Books :
       Resubmitted(b) =>
         /\ chapters'[b] = 0
         /\ \A j \in JobIds :
              processing_jobs[j].book_id = b =>
                ~(processing_jobs'[j].status = "pending"
                  /\ processing_jobs'[j].retry_count < processing_jobs'[j].max_retries)]_vars

(***************************************************************************)
(* The content cache: the table processing_cache with its functions        *)
(* get_cached_result and store_cached_result, its trigger                   *)
(* update_cache_access, and the cache keys of the stage handlers            *)
(***************************************************************************)
\* characters of an extracted text
Chars == {"a", "b"}
\* longest text followed
MaxTextLen == 2
\* text.substring(0, 1000): the number of characters of the text that enter
\* the key, scaled to the texts followed
KeyPrefixLength == 1

Texts == UNION {[1..n -> Chars] : n \in 1..MaxTextLen}
Titles == {"T1", "T2"}
UserIds == {"u1", "u2"}
FileNames == {"f.pdf"}
FileSizes == {1, 2}

\* crypto.subtle.digest('SHA-256', ...) rendered in hex: a digest without
\* collisions, so two keys are equal exactly when the hashed strings are
sha256(data) == <<"sha256">> \o data

\* extract-pdf-text generateCacheKey: `${userId}:${fileName}:${fileSize}`
generateCacheKey_text(userId, fileName, fileSize) ==
  sha256(<<userId, ":", fileName, ":", ToString(fileSize)>>)

\* text.substring(0, n)
substring(text, n) == SubSeq(text, 1, IF Len(text) < n THEN Len(text) ELSE n)

\* detect-chapters generateCacheKey:
\* `${text.substring(0, 1000)}:${bookTitle}:${text.length}`
generateCacheKey(text, bookTitle) ==
  sha256(substring(text, KeyPrefixLength) \o <<":", bookTitle, ":", ToString(Len(text))>>)

\* the ExtractionResult of the file of that user, name and size
extractText(userId, fileName, fileSize) ==
  <<"text", userId, fileName, ToString(fileSize)>>

\* the DetectionResult: the chapters are slices of the whole text, detected
\* with the book (title) as context
detectChapters(text, bookTitle) == <<"chapters", bookTitle>> \o text

\* an UPDATE that does not wait for the row lock
CacheRowLockFree_NoWait(i) == TRUE

\* no UPDATE of another transaction holds row i
CacheRowLockFree(i) ==
  \A c \in CacheCallers : ~(cache_call[c].pc = "update" /\ cache_call[c].row = i)

\* WHERE cache_key = p_cache_key AND cache_type = p_cache_type
MatchingRows(p_cache_key, p_cache_type) ==
  {i \in DOMAIN cache_entries :
     /\ cache_entries[i].cache_key = p_cache_key
     /\ cache_entries[i].cache_type = p_cache_type}

\* a table without the UNIQUE constraint: no INSERT conflicts
ConflictRows_NoConstraint(p_cache_key) == {}

\* cache_key TEXT NOT NULL UNIQUE with ON CONFLICT (cache_key): the rows an
\* INSERT of p_cache_key conflicts with
ConflictRows(p_cache_key) ==
  {i \in DOMAIN cache_entries : cache_entries[i].cache_key = p_cache_key}

\* trigger update_cache_access_trigger, BEFORE UPDATE FOR EACH ROW
\* WHEN (OLD.last_accessed_at < now() - INTERVAL '1 minute'): stale says
\* whether the row was last accessed more than a minute ago
update_cache_access(OLD_, NEW_, stale) ==
  IF stale THEN [NEW_ EXCEPT !.hit_count = OLD_.hit_count + 1] ELSE NEW_

\* the other variables are unchanged by the cache
CacheUnchanged ==
  UNCHANGED <<queueVars, pipelineVars, enhanceVars, statusVars,
              processing_started_at, chapter_rows, store, recordVars>>

\* checkCache called by a stage handler: supabase.rpc('get_cached_result')
\* with the key of its input; computed is what the stage computes from that
\* input when the lookup misses
CheckCache(c, cacheKey, cacheType, computed) ==
  /\ cache_call[c].pc \in {"idle", "hit", "stored"}
  /\ cache_call[c].calls < MaxCacheCalls
  /\ cache_call' = [cache_call EXCEPT ![c] =
       [pc |-> "get", cache_key |-> cacheKey, cache_type |-> cacheType,
        computed |-> computed, row |-> 0, hit_count |-> 0, result |-> NoResult,
        calls |-> @.calls + 1]]
  /\ UNCHANGED cache_entries
  /\ CacheUnchanged

\* extract-pdf-text serve: the book's user_id, file_name and file_size
ExtractCheckCache(c) ==
  \E userId \in UserIds, fileName \in FileNames, fileSize \in FileSizes :
    CheckCache(c, generateCacheKey_text(userId, fileName, fileSize),
               "text_extraction", extractText(userId, fileName, fileSize))

\* detect-chapters serve: the request's text and the book's title
DetectCheckCache(c) ==
  \E text \in Texts, bookTitle \in Titles :
    CheckCache(c, generateCacheKey(text, bookTitle),
               "chapter_detection", detectChapters(text, bookTitle))

\* get_cached_result, the UPDATE finds its row: without a matching row the
\* result is NULL; otherwise it waits for the row lock, takes it and reads
\* the row
GetCachedResultLock(c) ==
  LET rec == cache_call[c]
      rows == MatchingRows(rec.cache_key, rec.cache_type)
  IN /\ rec.pc = "get"
     /\ IF rows = {}
        THEN cache_call' = [cache_call EXCEPT ![c] = [rec EXCEPT !.pc = "miss"]]
        ELSE \E i \in rows :
               /\ CacheRowLockFree(i)
               /\ cache_call' = [cache_call EXCEPT ![c] =
                    [rec EXCEPT !.pc = "update", !.row = i,
                                !.hit_count = cache_entries[i].hit_count]]
     /\ UNCHANGED cache_entries
     /\ CacheUnchanged

\* get_cached_result, the UPDATE writes hit_count = hit_count + 1 through the
\* trigger, RETURNING output_data, and commits
GetCachedResultCommit(c) ==
  LET rec == cache_call[c]
      OLD_ == cache_entries[rec.row]
      NEW_ == [OLD_ EXCEPT !.hit_count = rec.hit_count + 1]
  IN /\ rec.pc = "update"
     /\ \E stale \in BOOLEAN :
          cache_entries' = [cache_entries EXCEPT ![rec.row] =
                              update_cache_access(OLD_, NEW_, stale)]
     /\ cache_call' = [cache_call EXCEPT ![c] =
          [rec EXCEPT !.pc = "hit", !.result = OLD_.output_data]]
     /\ CacheUnchanged

\* after a miss the stage computes its result and storeInCache calls
\* store_cached_result: INSERT ... ON CONFLICT (cache_key) DO UPDATE SET
\* output_data = p_output_data, hit_count = 0 (through the trigger)
StoreInCache(c) ==
  LET rec == cache_call[c]
      conflict == ConflictRows(rec.cache_key)
  IN /\ rec.pc = "miss"
     /\ IF conflict = {}
        THEN cache_entries' = Append(cache_entries,
               [cache_key |-> rec.cache_key, cache_type |-> rec.cache_type,
                output_data |-> rec.computed, hit_count |-> 0])
        ELSE \E i \in conflict, stale \in BOOLEAN :
               /\ CacheRowLockFree(i)
               /\ cache_entries' = [cache_entries EXCEPT ![i] =
                    update_cache_access(@,
                      [@ EXCEPT !.output_data = rec.computed, !.hit_count = 0], stale)]
     /\ cache_call' = [cache_call EXCEPT ![c] =
          [rec EXCEPT !.pc = "stored", !.result = rec.computed]]
     /\ CacheUnchanged

NextCache ==
  \/ \E c \in CacheCallers : ExtractCheckCache(c)
  \/ \E c \in CacheCallers : DetectCheckCache(c)
  \/ \E c \in CacheCallers : GetCachedResultLock(c)
  \/ \E c \in CacheCallers : GetCachedResultCommit(c)
  \/ \E c \in CacheCallers : StoreInCache(c)

SpecCache == InitEnhance /\ [][NextCache]_vars

\* the step in which the lookup of c returns the payload
LookupReturns(c) == cache_call[c].pc = "update" /\ cache_call'[c].pc = "hit"

\* C18: the step in which a lookup returns the payload raises the hit count
\* of the entry it read by exactly one over the value the entry had just
\* before, and changes no other entry; so of two concurrent lookups of one
\* entry neither increment is lost and none is added.
C18_LookupIncrementsHitCountOnce ==
  [][\A c \in CacheCallers :
       LookupReturns(c) =>
         /\ cache_call'[c].result = cache_entries[cache_call[c].row].output_data
         /\ Len(cache_entries') = Len(cache_entries)
         /\ \A i \in DOMAIN cache_entries :
              cache_entries'[i].hit_count =
                cache_entries[i].hit_count + (IF i = cache_call[c].row THEN 1 ELSE 0)]_vars

\* both callers looked the same entry up, the second reading the count the
\* first had written; both have returned and the entry counts two hits
C18_Witness ==
  /\ \A c \in CacheCallers : cache_call[c].pc = "hit"
  /\ cache_call[1].row = cache_call[2].row
  /\ cache_call[1].hit_count + 1 = cache_call[2].hit_count
  /\ cache_entries[cache_call[1].row].hit_count = 2

\* the step is a put of c on a key that already has an entry
PutOnExistingKey(c) ==
  /\ cache_call[c].pc = "miss"
  /\ cache_call'[c].pc = "stored"
  /\ \E i \in DOMAIN cache_entries : cache_entries[i].cache_key = cache_call[c].cache_key

C20_CacheHitEqualsRecomputation ==
  \A c \in CacheCallers :
    cache_call[c].pc = "hit" => cache_call[c].result = cache_call[c].computed

(***************************************************************************)
(* Eviction of cache entries: cleanup_old_cache, CacheManager.cleanup and   *)
(* optimize_cache_auto. Time is counted in days; each row carries its age   *)
(* (now() - created_at) and the days since its last access                  *)
(* (now() - last_accessed_at).                                              *)
(***************************************************************************)
\* days followed
MaxAgeDays == 5
\* hits counted
MaxHitCount == 2
\* cleanup_old_cache: INTERVAL '30 days', scaled to the days followed
OldCacheDays == 3
\* cleanup_old_cache: hit_count < 2
MinHitCount == 2
\* CACHE_CONFIG.CLEANUP.lowAccessThreshold
lowAccessThreshold == 2
\* CACHE_CONFIG.CLEANUP.oldEntryThreshold (90 days), scaled
oldEntryThreshold == 4
\* optimize_cache_auto: access_count < 2
MinAccessCount == 2
\* optimize_cache_auto: created_at < now() - INTERVAL '7 days', scaled
LowAccessCreatedDays == 2
\* optimize_cache_auto: last_accessed_at < now() - INTERVAL '3 days', scaled
LowAccessIdleDays == 1

\* the entries followed: one of each stage
EvictEntries ==
  {[cache_key |-> generateCacheKey_text("u1", "f.pdf", 1), cache_type |-> "text_extraction",
    output_data |-> extractText("u1", "f.pdf", 1)],
   [cache_key |-> generateCacheKey(<<"a">>, "T1"), cache_type |-> "chapter_detection",
    output_data |-> detectChapters(<<"a">>, "T1")]}

\* storeInCache: inputHash = hashText(JSON.stringify({ cacheKey, ... })), a
\* digest of a string that holds the key
hashText(cacheKey) == <<"sha256", "{">> \o cacheKey \o <<"}">>

\* the other variables are unchanged by the cache's maintenance
EvictUnchanged ==
  UNCHANGED <<queueVars, pipelineVars, enhanceVars, statusVars,
              processing_started_at, chapter_rows, store, cache_call, recordVars>>

\* store_cached_result at the present day: a new row has created_at and
\* last_accessed_at DEFAULT now(), hit_count and access_count DEFAULT 0 and
\* expires_at NULL; on conflict the row's output_data, hit_count and
\* last_accessed_at are updated through the trigger update_cache_access,
\* which fires for a row not accessed for a minute (any row idle a day)
StoreCachedResult(e) ==
  LET conflict == ConflictRows(e.cache_key)
  IN /\ IF conflict = {}
        THEN cache_entries' = Append(cache_entries,
               [cache_key |-> e.cache_key, cache_type |-> e.cache_type,
                input_hash |-> hashText(e.cache_key), output_data |-> e.output_data,
                hit_count |-> 0, access_count |-> 0, expires_at |-> NULL,
                age |-> 0, idle |-> 0])
        ELSE \E i \in conflict :
             \E stale \in (IF cache_entries[i].idle > 0 THEN {TRUE} ELSE BOOLEAN) :
               /\ stale => cache_entries[i].hit_count < MaxHitCount
               /\ cache_entries' = [cache_entries EXCEPT ![i] =
                    update_cache_access(@,
                      [@ EXCEPT !.output_data = e.output_data, !.hit_count = 0,
                                !.idle = 0], stale)]
     /\ EvictUnchanged

\* get_cached_result at the present day, as one step: hit_count + 1 and
\* last_accessed_at = now()
GetCachedResult(e) ==
  /\ \E i \in MatchingRows(e.cache_key, e.cache_type) :
       /\ cache_entries[i].hit_count < MaxHitCount
       /\ \E stale \in (IF cache_entries[i].idle > 0 THEN {TRUE} ELSE BOOLEAN) :
            cache_entries' = [cache_entries EXCEPT ![i] =
              update_cache_access(@,
                [@ EXCEPT !.hit_count = @ + 1, !.idle = 0], stale)]
  /\ EvictUnchanged

\* a day passes
CacheDayPasses ==
  /\ \A i \in DOMAIN cache_entries : cache_entries[i].age < MaxAgeDays
  /\ cache_entries' = [i \in DOMAIN cache_entries |->
       [cache_entries[i] EXCEPT !.age = @ + 1, !.idle = @ + 1]]
  /\ EvictUnchanged

\* DELETE FROM processing_cache WHERE <Deleted>: the rows that stay
DeleteFrom(rows, Deleted(_)) ==
  LET Keep(row) == ~Deleted(row) IN SelectSeq(rows, Keep)

\* cleanup_old_cache: WHERE created_at < now() - INTERVAL '30 days' AND hit_count < 2
CleanupOldCacheWhere(row) == row.age > OldCacheDays /\ row.hit_count < MinHitCount

cleanup_old_cache ==
  /\ cache_entries' = DeleteFrom(cache_entries, CleanupOldCacheWhere)
  /\ EvictUnchanged

\* CacheManager.cleanup: .delete().or(`hit_count.lt.${lowAccessThreshold},
\* created_at.lt.${cutoffDate}`), cutoffDate = today - oldEntryThreshold days
CacheManagerCleanupWhere(row) ==
  row.hit_count < lowAccessThreshold \/ row.age > oldEntryThreshold

CacheManagerCleanup ==
  /\ cache_entries' = DeleteFrom(cache_entries, CacheManagerCleanupWhere)
  /\ EvictUnchanged

\* optimize_cache_auto, first DELETE: expires_at IS NOT NULL AND expires_at < now();
\* a row that has an expiry holds the day of its age at which it expires
ExpiredWhere(row) == row.expires_at # NULL /\ row.expires_at < row.age

\* optimize_cache_auto, second DELETE
LowAccessWhere(row) ==
  /\ row.access_count < MinAccessCount
  /\ row.age > LowAccessCreatedDays
  /\ row.idle > LowAccessIdleDays

\* optimize_cache_auto, third DELETE: of the rows that share an input_hash
\* all but the first by access_count DESC, created_at DESC are deleted
DeleteDuplicates(rows) ==
  LET First(i) ==
        \A j \in DOMAIN rows :
          (j # i /\ rows[j].input_hash = rows[i].input_hash) =>
            \/ rows[i].access_count > rows[j].access_count
            \/ /\ rows[i].access_count = rows[j].access_count
               /\ (rows[i].age < rows[j].age \/ (rows[i].age = rows[j].age /\ i < j))
      kept == {i \in DOMAIN rows : First(i)}
      Nth[n \in 0..Len(rows)] ==
        IF n = 0 THEN <<>>
        ELSE IF n \in kept THEN Append(Nth[n - 1], rows[n]) ELSE Nth[n - 1]
  IN Nth[Len(rows)]

optimize_cache_auto ==
  /\ cache_entries' =
       DeleteDuplicates(DeleteFrom(DeleteFrom(cache_entries, ExpiredWhere), LowAccessWhere))
  /\ EvictUnchanged

NextEvict ==
  \/ \E e \in EvictEntries : StoreCachedResult(e)
  \/ \E e \in EvictEntries : GetCachedResult(e)
  \/ CacheDayPasses
  \/ cleanup_old_cache
  \/ CacheManagerCleanup
  \/ optimize_cache_auto

SpecEvict == InitEnhance /\ [][NextEvict]_vars

\* the entry of row i is gone after the step
Evicted(i) ==
  \A k \in DOMAIN cache_entries' : cache_entries'[k].cache_key # cache_entries[i].cache_key

\* C21: an entry that a step removes from the cache was older than the age
\* threshold and had fewer hits than the minimum hit count.
C21_EvictsOnlyOldAndRarelyHit ==
  [][\A i \in DOMAIN cache_entries :
       Evicted(i) =>
         /\ cache_entries[i].age > OldCacheDays
         /\ cache_entries[i].hit_count < MinHitCount]_vars

(***************************************************************************)
(* SpecRerun: the orchestrators and the caches.  A run is one invocation   *)
(* of an orchestrator for an uploaded file; the direct orchestrator calls  *)
(* the stage functions itself, the optimized one enqueues the extraction   *)
(* job and responds.  The stage functions look their input up in           *)
(* processing_cache and store what they compute.                           *)
(***************************************************************************)
Orchestrators == {"direct", "optimized"}

\* the columns user_id, file_name, file_size and title of the book of a run
UploadedFiles ==
  [user_id : UserIds, file_name : FileNames, file_size : FileSizes, title : Titles]

\* generateWorkflowCacheKey: `workflow_v2:${userId}:${fileName}:${fileSize}:${title}`
generateWorkflowCacheKey(userId, fileName, fileSize, title) ==
  sha256(<<"workflow_v2:", userId, ":", fileName, ":", ToString(fileSize), ":", title>>)

\* get_cached_result: the output_data of the matching row, NULL without one
get_cached_result(p_cache_key, p_cache_type) ==
  LET rows == MatchingRows(p_cache_key, p_cache_type)
  IN IF rows = {} THEN NoResult
     ELSE cache_entries[CHOOSE i \in rows : TRUE].output_data

\* get_cached_result: the table after hit_count = hit_count + 1 on the
\* matching row (through the trigger)
CacheAfterLookup(p_cache_key, p_cache_type, stale) ==
  [i \in DOMAIN cache_entries |->
     IF i \in MatchingRows(p_cache_key, p_cache_type)
     THEN update_cache_access(cache_entries[i],
            [cache_entries[i] EXCEPT !.hit_count = @ + 1], stale)
     ELSE cache_entries[i]]

\* store_cached_result: the table after INSERT ... ON CONFLICT (cache_key)
\* DO UPDATE SET output_data, hit_count = 0
CacheAfterStore(p_cache_key, p_cache_type, p_output_data, stale) ==
  IF ConflictRows(p_cache_key) = {}
  THEN Append(cache_entries,
         [cache_key |-> p_cache_key, cache_type |-> p_cache_type,
          output_data |-> p_output_data, hit_count |-> 0])
  ELSE [i \in DOMAIN cache_entries |->
          IF i \in ConflictRows(p_cache_key)
          THEN update_cache_access(cache_entries[i],
                 [cache_entries[i] EXCEPT !.output_data = p_output_data,
                                          !.hit_count = 0], stale)
          ELSE cache_entries[i]]

\* the other variables are unchanged by a run
RerunUnchanged ==
  UNCHANGED <<queueVars, pipelineVars, enhanceVars, statusVars,
              processing_started_at, chapter_rows, store, cache_call,
              processing_progress, book_totals, chapter_fields, enhancer,
              extraction, detection>>

\* the runs before r have responded
EarlierRunsResponded(r) ==
  \A q \in WorkflowRuns : q < r => workflow[q].pc = "responded"

\* serve of an orchestrator: initializeWorkflow (processing, overall
\* progress 5), then checkFullWorkflowCache.  On a hit restoreFromCache
\* writes the cached chapters and `completed` with progress 100, and the
\* run reports cached (direct: cached: true; optimized: workflowId
\* cached_<bookId>).  On a miss the direct orchestrator goes on to the
\* extraction and the optimized one enqueues extract_text and responds
\* with a workflowId workflow_<bookId>_<time>.
OrchestratorServe(r) ==
  /\ workflow[r].pc = "none"
  /\ EarlierRunsResponded(r)
  /\ \E o \in Orchestrators, book \in UploadedFiles, stale \in BOOLEAN :
       LET cacheKey == generateWorkflowCacheKey(book.user_id, book.file_name,
                                                book.file_size, book.title)
           fullCacheResult == get_cached_result(cacheKey, "full_workflow")
           run == [orchestrator |-> o, book |-> book, text |-> NoResult,
                   stage_cached |-> {}, job |-> NULL]
       IN /\ cache_entries' = CacheAfterLookup(cacheKey, "full_workflow", stale)
          /\ workflow' = [workflow EXCEPT ![r] =
               IF fullCacheResult # NoResult
               THEN run @@ [pc |-> "responded", success |-> TRUE, cached |-> TRUE,
                            chapters |-> fullCacheResult,
                            processing_status |-> "completed",
                            overall_progress |-> 100]
               ELSE IF o = "direct"
               THEN run @@ [pc |-> "extract", success |-> FALSE, cached |-> FALSE,
                            chapters |-> NoResult,
                            processing_status |-> "processing",
                            overall_progress |-> 5]
               ELSE [run EXCEPT !.job = "extract_text"]
                      @@ [pc |-> "responded", success |-> TRUE, cached |-> FALSE,
                          chapters |-> NoResult,
                          processing_status |-> "processing",
                          overall_progress |-> 5]]
  /\ RerunUnchanged

\* callFunction('extract-pdf-text'): checkCache with the key of user, file
\* name and file size; on a hit the cached text is returned with cached:
\* true, otherwise the text is extracted and stored in the cache
DirectExtract(r) ==
  LET run == workflow[r]
      cacheKey == generateCacheKey_text(run.book.user_id, run.book.file_name,
                                        run.book.file_size)
      cachedResult == get_cached_result(cacheKey, "text_extraction")
  IN /\ run.pc = "extract"
     /\ \E stale \in BOOLEAN :
          IF cachedResult # NoResult
          THEN /\ cache_entries' = CacheAfterLookup(cacheKey, "text_extraction", stale)
               /\ workflow' = [workflow EXCEPT ![r] =
                    [run EXCEPT !.pc = "detect", !.text = cachedResult,
                                !.stage_cached = @ \cup {"text_extraction"},
                                !.overall_progress = 25]]
          ELSE /\ cache_entries' = CacheAfterStore(cacheKey, "text_extraction",
                    extractText(run.book.user_id, run.book.file_name,
                                run.book.file_size), stale)
               /\ workflow' = [workflow EXCEPT ![r] =
                    [run EXCEPT !.pc = "detect",
                                !.text = extractText(run.book.user_id,
                                           run.book.file_name, run.book.file_size),
                                !.overall_progress = 25]]
     /\ RerunUnchanged

\* callFunction('detect-chapters') with the extracted text: checkCache with
\* the key of text and title; on a hit the cached chapters are returned with
\* cached: true, otherwise they are detected and stored in the cache
DirectDetect(r) ==
  LET run == workflow[r]
      cacheKey == generateCacheKey(run.text, run.book.title)
      cachedResult == get_cached_result(cacheKey, "chapter_detection")
  IN /\ run.pc = "detect"
     /\ \E stale \in BOOLEAN :
          IF cachedResult # NoResult
          THEN /\ cache_entries' = CacheAfterLookup(cacheKey, "chapter_detection", stale)
               /\ workflow' = [workflow EXCEPT ![r] =
                    [run EXCEPT !.pc = "store", !.chapters = cachedResult,
                                !.stage_cached = @ \cup {"chapter_detection"},
                                !.overall_progress = 35]]
          ELSE /\ cache_entries' = CacheAfterStore(cacheKey, "chapter_detection",
                    detectChapters(run.text, run.book.title), stale)
               /\ workflow' = [workflow EXCEPT ![r] =
                    [run EXCEPT !.pc = "store",
                                !.chapters = detectChapters(run.text, run.book.title),
                                !.overall_progress = 35]]
     /\ RerunUnchanged

\* callFunction('store-chapters') and ('enhance-chapters-async'), the final
\* updateProgress('completed', 100, 100) and the result with cached: false
DirectFinish(r) ==
  /\ workflow[r].pc = "store"
  /\ workflow' = [workflow EXCEPT ![r] =
       [@ EXCEPT !.pc = "responded", !.success = TRUE, !.cached = FALSE,
                 !.processing_status = "completed", !.overall_progress = 100]]
  /\ UNCHANGED cache_entries
  /\ RerunUnchanged

\* a stage function does not succeed: runDirectPipeline throws, serve marks
\* the book failed and responds with the error
DirectFail(r) ==
  /\ workflow[r].pc \in {"extract", "detect", "store"}
  /\ workflow' = [workflow EXCEPT ![r] =
       [@ EXCEPT !.pc = "responded", !.success = FALSE, !.cached = FALSE,
                 !.processing_status = "failed", !.overall_progress = 0]]
  /\ UNCHANGED cache_entries
  /\ RerunUnchanged

NextRerun ==
  \/ \E r \in WorkflowRuns : OrchestratorServe(r)
  \/ \E r \in WorkflowRuns : DirectExtract(r)
  \/ \E r \in WorkflowRuns : DirectDetect(r)
  \/ \E r \in WorkflowRuns : DirectFinish(r)
  \/ \E r \in WorkflowRuns : DirectFail(r)

SpecRerun == InitEnhance /\ [][NextRerun]_vars

\* run r has responded for the file of an earlier run that completed
SecondRunOfCompletedFile(r) ==
  /\ workflow[r].pc = "responded"
  /\ workflow[r].success
  /\ \E q \in WorkflowRuns :
       /\ q < r
       /\ workflow[q].pc = "responded"
       /\ workflow[q].processing_status = "completed"
       /\ workflow[q].book = workflow[r].book

\* C22: a run for a file identical to the file of an earlier, completed run
\* of the same user is served from the cache: its result reports cached,
\* the overall progress is 100 and the chapters are those of the first run.
C22_SecondRunServedFromCache ==
  \A r \in WorkflowRuns :
    SecondRunOfCompletedFile(r) =>
      /\ workflow[r].cached
      /\ workflow[r].overall_progress = 100
      /\ \A q \in WorkflowRuns :
           (q < r /\ workflow[q].processing_status = "completed"
                  /\ workflow[q].book = workflow[r].book)
             => workflow[r].chapters = workflow[q].chapters

(***************************************************************************)
(* SpecExtract: extract-pdf-text with the text of the PDF followed line by *)
(* line.  A line is prose, a standalone page number, a "Page X of Y"       *)
(* footer, or blank.                                                       *)
(***************************************************************************)
\* longest PDF text followed, in lines
MaxLines == 3
\* invocations of extract-pdf-text for the book
MaxExtractCalls == 2

LineKinds == {"prose", "number", "page_of", "blank"}
PdfTexts == UNION {[1..n -> LineKinds] : n \in 0..MaxLines}

\* String.prototype.trim over lines: whitespace at both ends is dropped
RECURSIVE trimStart(_)
trimStart(text) ==
  IF text # <<>> /\ Head(text) = "blank" THEN trimStart(Tail(text)) ELSE text

RECURSIVE trimEnd(_)
trimEnd(text) ==
  IF text # <<>> /\ text[Len(text)] = "blank"
  THEN trimEnd(SubSeq(text, 1, Len(text) - 1)) ELSE text

trim(text) == trimEnd(trimStart(text))

\* cleanupExtractedText: a standalone page number (/^\s*\d+\s*$/gm) and a
\* "Page X of Y" line are replaced by nothing, which leaves a blank line;
\* then trim()
cleanupExtractedText(text) ==
  trim([i \in DOMAIN text |->
          IF text[i] \in {"number", "page_of"} THEN "blank" ELSE text[i]])

\* the book of the extraction: its user, file name and file size
ExtractedBook == CHOOSE b \in Books : TRUE
ExtractCacheKey == generateCacheKey_text("u1", "f.pdf", 1)

\* the ExtractionResult of a text: an object even when the text is empty
ExtractionResult(text) == <<"text">> \o text
TextOf(result) == Tail(result)

ExtractUnchanged ==
  UNCHANGED <<row_locks, pc, held, processing_cache, chapters, enhanceVars,
              statusVars, chapter_rows, store, cache_call, processing_progress,
              book_totals, workflow, chapter_fields, enhancer, detection>>

\* serve up to the download: processing_status = 'processing', then
\* checkCache; on a hit detect_chapters is enqueued with the cached result
\* and the function responds with cached: true.  pdf is the text the PDF of
\* the book holds.
ExtractServe(pdf) ==
  LET calls == IF extraction.pc = "none" THEN 0 ELSE extraction.calls
      cachedResult == get_cached_result(ExtractCacheKey, "text_extraction")
  IN /\ extraction.pc \in {"none", "done", "failed"}
     /\ calls < MaxExtractCalls
     /\ extraction.pc # "none" => pdf = extraction.pdf
     /\ books' = [books EXCEPT ![ExtractedBook] = "processing"]
     /\ processing_started_at' = [processing_started_at EXCEPT ![ExtractedBook] = now]
     /\ \E stale \in BOOLEAN :
          cache_entries' = CacheAfterLookup(ExtractCacheKey, "text_extraction", stale)
     /\ IF cachedResult # NoResult
        THEN /\ \E ok \in BOOLEAN :
                  enqueueNextJob(ExtractedBook, "detect_chapters", NoPayload, ok)
             /\ extraction' = [pc |-> "done", pdf |-> pdf, calls |-> calls + 1,
                               text |-> TextOf(cachedResult), cached |-> TRUE]
        ELSE /\ UNCHANGED processing_jobs
             /\ extraction' = [pc |-> "downloaded", pdf |-> pdf, calls |-> calls + 1,
                               text |-> <<>>, cached |-> FALSE]
     /\ ExtractUnchanged

\* extractTextWithProgress: `No text could be extracted from PDF` is thrown
\* when result.text.trim() is empty, and only then is the text cleaned; the
\* catch block of serve marks the book failed
extractTextWithProgress ==
  /\ extraction.pc = "downloaded"
  /\ IF trim(extraction.pdf) = <<>>
     THEN /\ books' = [books EXCEPT ![ExtractedBook] = "failed"]
          /\ extraction' = [extraction EXCEPT !.pc = "failed"]
     ELSE /\ UNCHANGED books
          /\ extraction' = [extraction EXCEPT
               !.pc = "extracted", !.text = cleanupExtractedText(extraction.pdf)]
  /\ UNCHANGED <<processing_jobs, processing_started_at, cache_entries>>
  /\ ExtractUnchanged

\* the download or the PDF parser fails: the catch block marks the book failed
ExtractFail ==
  /\ extraction.pc = "downloaded"
  /\ books' = [books EXCEPT ![ExtractedBook] = "failed"]
  /\ extraction' = [extraction EXCEPT !.pc = "failed"]
  /\ UNCHANGED <<processing_jobs, processing_started_at, cache_entries>>
  /\ ExtractUnchanged

\* serve after the extraction: storeInCache, the book's totals,
\* enqueueNextJob('detect_chapters') and the response; a failure of the
\* cache or of the queue is logged, not raised
ExtractFinish ==
  /\ extraction.pc = "extracted"
  /\ \E stored \in BOOLEAN, stale \in BOOLEAN :
       IF stored
       THEN cache_entries' = CacheAfterStore(ExtractCacheKey, "text_extraction",
                               ExtractionResult(extraction.text), stale)
       ELSE UNCHANGED cache_entries
  /\ \E ok \in BOOLEAN :
       enqueueNextJob(ExtractedBook, "detect_chapters", NoPayload, ok)
  /\ extraction' = [extraction EXCEPT !.pc = "done"]
  /\ UNCHANGED <<books, processing_started_at>>
  /\ ExtractUnchanged

NextExtract ==
  \/ \E pdf \in PdfTexts : ExtractServe(pdf)
  \/ extractTextWithProgress
  \/ ExtractFail
  \/ ExtractFinish

SpecExtract == InitEnhance /\ [][NextExtract]_vars

\* a detect_chapters job is in the queue for the book
DetectionEnqueued ==
  \E i \in DOMAIN processing_jobs :
    /\ processing_jobs[i].book_id = ExtractedBook
    /\ processing_jobs[i].job_type = "detect_chapters"

\* C25: when extract-pdf-text has responded and the text it extracted is
\* empty after cleanup, the document is marked failed and no
\* chapter-detection job is enqueued.
C25_EmptyTextFailsDocument ==
  (extraction.pc = "done" /\ extraction.text = <<>>) =>
    /\ books[ExtractedBook] = "failed"
    /\ ~DetectionEnqueued

(***************************************************************************)
(* SpecDetect: detect-chapters with the text followed word by word.  The   *)
(* lengths the strategies compare against are scaled to the texts          *)
(* followed; their order is that of the source (100 < 500 < 1000).         *)
(***************************************************************************)
\* longest text followed, in words, and the longest word, in characters
MaxWords == 4
MaxWordLength == 2
\* createOptimizedChunks: targetWords = 2000, scaled
ChunkTargetWords == 3
\* content.trim().length > 100, scaled
MinChunkLength == 3
\* applyAdaptiveStrategy short_form: targetWords 1500, minWords 800,
\* maxWords 2500, scaled
AdaptiveTargetWords == 3
AdaptiveMinWords == 2
AdaptiveMaxWords == 4
\* detectPatternBasedChapters: content.length > 500, scaled
PatternMinLength == 5
\* detectStructuralChapters: content.length > 1000, scaled
StructuralMinLength == 7
\* detectSemanticChapters: content.length > 500, scaled
SemanticMinLength == 5

\* a text is the sequence of the lengths of its words; `!text` rejects the
\* empty one
DetectTexts == UNION {[1..n -> 1..MaxWordLength] : n \in 1..MaxWords}

Min(a, b) == IF a < b THEN a ELSE b
Max(a, b) == IF a > b THEN a ELSE b

\* words.join(' ').length
RECURSIVE JoinedLength(_)
JoinedLength(words) ==
  IF words = <<>> THEN 0
  ELSE IF Len(words) = 1 THEN Head(words)
  ELSE Head(words) + 1 + JoinedLength(Tail(words))

\* words.slice(start, start + size), start counted from 0
Slice(words, start, size) == SubSeq(words, start + 1, Min(Len(words), start + size))

\* createOptimizedChunks: the number of chunks of targetWords words whose
\* content is longer than the minimum, from word i on
RECURSIVE ChunksFrom(_, _)
ChunksFrom(words, i) ==
  IF i >= Len(words) THEN 0
  ELSE (IF JoinedLength(Slice(words, i, ChunkTargetWords)) > MinChunkLength
        THEN 1 ELSE 0)
       + ChunksFrom(words, i + ChunkTargetWords)

createOptimizedChunks(text) == ChunksFrom(text, 0)

\* applyAdaptiveStrategy(text, 'short_form'): the number of chapters pushed
\* from word chapterStart on
RECURSIVE AdaptiveFrom(_, _)
AdaptiveFrom(words, chapterStart) ==
  IF chapterStart >= Len(words) THEN 0
  ELSE LET remainingWords == Len(words) - chapterStart
           chapterSize == Min(Max(AdaptiveMinWords,
                                  Min(AdaptiveTargetWords, remainingWords)),
                              AdaptiveMaxWords)
       IN (IF JoinedLength(Slice(words, chapterStart, chapterSize)) > MinChunkLength
           THEN 1 ELSE 0)
          + AdaptiveFrom(words, chapterStart + chapterSize)

applyAdaptiveStrategy(text) == AdaptiveFrom(text, 0)

\* the numbers of chapters a strategy that cuts the text at boundaries it
\* finds may return: each chapter's content is longer than minLength
BoundaryChapterCounts(text, minLength) ==
  {k \in 0..MaxWords : k * (minLength + 1) <= JoinedLength(text)}

DetectUnchanged ==
  UNCHANGED <<row_locks, pc, held, pipelineVars, enhanceVars, statusVars,
              processing_started_at, chapter_rows, store, cacheVars,
              processing_progress, book_totals, workflow, chapter_fields,
              enhancer, extraction>>

\* serve up to the detection, for a request with a text, after a miss of
\* the cache
DetectServe(text) ==
  /\ detection.pc = "none"
  /\ detection' = [pc |-> "detecting", text |-> text, results |-> {}, chapters |-> 0]
  /\ UNCHANGED processing_jobs
  /\ DetectUnchanged

\* runParallelDetection: the four strategies; the results with at least one
\* chapter are kept, and without any the result of createOptimizedChunks is
\* pushed, whatever it holds
runParallelDetection ==
  /\ detection.pc = "detecting"
  /\ \E pattern \in BoundaryChapterCounts(detection.text, PatternMinLength),
        structural \in BoundaryChapterCounts(detection.text, StructuralMinLength),
        semantic \in BoundaryChapterCounts(detection.text, SemanticMinLength) :
       LET results ==
             {[method |-> "pattern", chapters |-> pattern],
              [method |-> "structural", chapters |-> structural],
              [method |-> "semantic", chapters |-> semantic],
              [method |-> "adaptive_short_form",
               chapters |-> applyAdaptiveStrategy(detection.text)]}
           successfulResults == {res \in results : res.chapters > 0}
       IN detection' = [detection EXCEPT
            !.pc = "selecting",
            !.results =
              IF successfulResults = {}
              THEN {[method |-> "fallback_chunking",
                     chapters |-> createOptimizedChunks(detection.text)]}
              ELSE successfulResults]
  /\ UNCHANGED processing_jobs
  /\ DetectUnchanged

\* selectBestDetection (the best score; the scores depend on the contents,
\* so any result may win), optimizeChapters (one chapter out per chapter
\* in), storeInCache, enqueueNextJob('store_chapters') and the response with
\* success: true
DetectFinish ==
  /\ detection.pc = "selecting"
  /\ \E bestResult \in detection.results :
       /\ detection' = [detection EXCEPT !.pc = "done",
                                         !.chapters = bestResult.chapters]
       /\ \E ok \in BOOLEAN :
            enqueueNextJob(ExtractedBook, "store_chapters",
                           Payload(bestResult.chapters, 0, 0), ok)
  /\ DetectUnchanged

\* the book is not found: the catch block responds with the error
DetectFail ==
  /\ detection.pc = "detecting"
  /\ detection' = [detection EXCEPT !.pc = "failed"]
  /\ UNCHANGED processing_jobs
  /\ DetectUnchanged

NextDetect ==
  \/ \E text \in DetectTexts : DetectServe(text)
  \/ runParallelDetection
  \/ DetectFinish
  \/ DetectFail

SpecDetect == InitEnhance /\ [][NextDetect]_vars

\* C24: when detect-chapters has responded with success, the list of
\* chapters it returns is not empty.
C24_DetectionReturnsChapters ==
  detection.pc = "done" => detection.chapters > 0

(***************************************************************************)
(* SpecProgress: update_processing_progress and the table                  *)
(* processing_progress, with UNIQUE (book_id, stage).  Of the definitions  *)
(* of the function in the migrations the last one is in force.             *)
(***************************************************************************)
\* the stages followed, of those the CHECK constraint on stage allows
ProgressStages == {"extracting_text", "completed", "failed"}
\* the percentages a caller passes
ProgressValues == {0, 100}

\* ON CONFLICT (book_id, stage): the rows an INSERT conflicts with
ProgressConflicts(p_book_id, p_stage) ==
  {row \in processing_progress : row.book_id = p_book_id /\ row.stage = p_stage}

ProgressUnchanged ==
  UNCHANGED <<queueVars, processing_cache, chapters, enhanceVars, statusVars,
              processing_started_at, chapter_rows, store, cacheVars,
              book_totals, stageVars>>

\* update_processing_progress(p_book_id, p_stage, p_stage_progress,
\* p_overall_progress, ...): INSERT ... ON CONFLICT (book_id, stage) DO
\* UPDATE SET stage_progress, overall_progress, ...; then the book's
\* processing_status for the stages completed and failed
UpdateProcessingProgress(p_book_id, p_stage, p_stage_progress, p_overall_progress) ==
  /\ processing_progress' =
       (processing_progress \ ProgressConflicts(p_book_id, p_stage))
         \cup {[book_id |-> p_book_id, stage |-> p_stage,
                stage_progress |-> p_stage_progress,
                overall_progress |-> p_overall_progress]}
  /\ books' = update_processing_progress(p_book_id, p_stage)
  /\ ProgressUnchanged

NextProgress ==
  \E b \in Books, stage \in ProgressStages,
     stage_progress \in ProgressValues, overall_progress \in ProgressValues :
    UpdateProcessingProgress(b, stage, stage_progress, overall_progress)

SpecProgress == InitEnhance /\ [][NextProgress]_vars

\* C26: a progress update adds a record and neither modifies nor removes a
\* record written before.
C26_ProgressAppendOnly ==
  [][processing_progress \subseteq processing_progress']_vars

(***************************************************************************)
(* SpecChapters: the rows of chapters field by field.  store-chapters      *)
(* inserts them; the enhancement function (enhance-chapters, or            *)
(* enhance-chapters-async, which generates summaries only) selects the     *)
(* chapters of its request and updates them one by one.  A field holds the *)
(* name of the component whose value it carries.                           *)
(***************************************************************************)
\* invocations of an enhancement function
MaxEnhancerCalls == 2

EnhancerVariants == {"enhance-chapters", "enhance-chapters-async"}
StorageComponent == "store-chapters"
EnhancementComponent == "enhancement-worker"

ChaptersUnchanged ==
  UNCHANGED <<queueVars, pipelineVars, enhanceVars, statusVars,
              processing_started_at, chapter_rows, store, cacheVars,
              processing_progress, book_totals, workflow, extraction, detection>>

\* prepareChaptersForDB and insertChaptersInBatches: title and content of
\* the detected chapter, summary: null, enhancement_status: 'pending'
InsertChapters ==
  /\ \A c \in ChapterIds : ~chapter_fields[c].stored
  /\ chapter_fields' = [c \in ChapterIds |->
       [stored |-> TRUE, title |-> StorageComponent, content |-> StorageComponent,
        summary |-> "null", enhancement_status |-> "pending",
        writers |-> [title |-> {StorageComponent}, content |-> {StorageComponent},
                     summary |-> {}],
        ai_calls |-> 0]]
  /\ UNCHANGED enhancer
  /\ ChaptersUnchanged

\* getChapterDataFromDB: the rows of the requested chapter numbers, ordered
\* by chapter_number; enhance-chapters-async adds .is('summary', null)
RECURSIVE OrderedByNumber(_)
OrderedByNumber(ids) ==
  IF ids = {} THEN <<>>
  ELSE LET c == CHOOSE x \in ids : \A y \in ids : x <= y
       IN <<c>> \o OrderedByNumber(ids \ {c})

getChapterDataFromDB(variant, chapterNumbers) ==
  OrderedByNumber(
    {c \in chapterNumbers :
       /\ chapter_fields[c].stored
       /\ variant = "enhance-chapters-async" => chapter_fields[c].summary = "null"})

\* serve of an enhancement function for a batch of chapters: the chapters
\* are read from the table; without any, `No chapters found in database`
EnhanceServe(variant, chapterNumbers) ==
  LET calls == IF enhancer.pc = "none" THEN 0 ELSE enhancer.calls
      chapterData == getChapterDataFromDB(variant, chapterNumbers)
  IN /\ enhancer.pc \in {"none", "done", "failed"}
     /\ calls < MaxEnhancerCalls
     /\ enhancer' = [pc |-> IF chapterData = <<>> THEN "failed" ELSE "enhancing",
                     variant |-> variant, chapters |-> chapterData,
                     calls |-> calls + 1]
     /\ UNCHANGED chapter_fields
     /\ ChaptersUnchanged

\* updateChapterInDB (enhance-chapters): title, content, summary and the
\* status; updateChapterSummaryInDB (enhance-chapters-async): summary and
\* the status
updateChapterInDB(variant, row) ==
  IF variant = "enhance-chapters"
  THEN [row EXCEPT !.title = EnhancementComponent,
                   !.content = EnhancementComponent,
                   !.summary = EnhancementComponent,
                   !.enhancement_status = "completed",
                   !.writers = [title |-> @.title \cup {EnhancementComponent},
                                content |-> @.content \cup {EnhancementComponent},
                                summary |-> @.summary \cup {EnhancementComponent}]]
  ELSE [row EXCEPT !.summary = EnhancementComponent,
                   !.enhancement_status = "completed",
                   !.writers = [@ EXCEPT !.summary = @ \cup {EnhancementComponent}]]

\* one turn of the loop over the chapters read: the model is called for the
\* chapter; its result is written to the row, a null result is counted, an
\* error marks the row failed
EnhanceChapter ==
  /\ enhancer.pc = "enhancing"
  /\ LET c == Head(enhancer.chapters)
         called == [chapter_fields[c] EXCEPT !.ai_calls = @ + 1]
     IN \E outcome \in {"enhancement", "null", "error"} :
          chapter_fields' = [chapter_fields EXCEPT ![c] =
            CASE outcome = "enhancement" -> updateChapterInDB(enhancer.variant, called)
              [] outcome = "null" -> called
              [] OTHER -> [called EXCEPT !.enhancement_status = "failed"]]
  /\ enhancer' = [enhancer EXCEPT
       !.chapters = Tail(@),
       !.pc = IF Tail(enhancer.chapters) = <<>> THEN "done" ELSE "enhancing"]
  /\ ChaptersUnchanged

NextChapters ==
  \/ InsertChapters
  \/ \E variant \in EnhancerVariants, chapterNumbers \in SUBSET ChapterIds :
       EnhanceServe(variant, chapterNumbers)
  \/ EnhanceChapter

SpecChapters == InitEnhance /\ [][NextChapters]_vars

\* C27: no field of a chapter is written by two components, and the
\* enhancement worker writes the summary only, never the title or the body.
C27_OneWriterPerField ==
  \A c \in ChapterIds :
    chapter_fields[c].stored =>
      /\ \A f \in {"title", "content", "summary"} :
           Cardinality(chapter_fields[c].writers[f]) <= 1
      /\ EnhancementComponent \notin chapter_fields[c].writers.title
      /\ EnhancementComponent \notin chapter_fields[c].writers.content

\* the step calls the model for chapter c
Summarizes(c) ==
  /\ enhancer.pc = "enhancing"
  /\ enhancer' # enhancer
  /\ Head(enhancer.chapters) = c

\* C30: the enhancement worker calls the model only for a chapter that has
\* no summary yet, and never overwrites a summary.
C30_OnlyChaptersWithoutSummary ==
  [][\A c \in ChapterIds :
       Summarizes(c) => chapter_fields[c].summary = "null"]_vars

(***************************************************************************)
(* SpecJobStatus: the queue with update_job_status, which any holder of    *)
(* the service role may call for any job and any status                    *)
(***************************************************************************)
\* update_job_status(p_job_id, p_status, p_error_details): UPDATE
\* processing_jobs SET status = p_status ... WHERE id = p_job_id, whatever
\* the status of the row; the UPDATE waits for a row lock.  The retries
\* followed are capped.
update_job_status(p_job_id, p_status) ==
  /\ p_job_id \notin row_locks
  /\ processing_jobs[p_job_id].retry_count <= DefaultMaxRetries
  /\ processing_jobs' = [processing_jobs EXCEPT ![p_job_id].status = p_status]
  /\ UNCHANGED <<row_locks, pc, held, pipelineVars>>
  /\ UNCHANGED <<enhanceVars, tableVars>>

UpdateJobStatus ==
  \E j \in JobIds, p_status \in JobStatuses : update_job_status(j, p_status)

NextJobStatus ==
  \/ EnqueueJob
  \/ \E w \in Workers : GetNextJobSelect(w)
  \/ \E w \in Workers : GetNextJobCommit(w)
  \/ \E w \in Workers : GetNextJobEmpty(w)
  \/ \E w \in Workers : CompleteJob(w)
  \/ UpdateJobStatus

SpecJobStatus == InitQueue /\ [][NextJobStatus]_vars

MaxStoredChapters == 31
\* invocations of store-chapters followed
MaxEnqueueCalls == 2

\* the jobs enqueued so far come from fewer than MaxEnqueueCalls invocations
EnqueueCalls ==
  Cardinality({i \in JobIds : processing_jobs[i].input_data.batch_number = 1})

\* store-chapters, after the insert of m chapters: enqueueEnhancementJobs
EnqueueEnhancementJobs(b, m) ==
  /\ EnqueueCalls < MaxEnqueueCalls
  /\ \E ok \in BOOLEAN : enqueueEnhancementJobs(b, m, ok)
  /\ UNCHANGED <<row_locks, pc, held, pipelineVars>>
  /\ UNCHANGED <<enhanceVars, tableVars>>

NextBatches ==
  \E b \in Books, m \in 1..MaxStoredChapters : EnqueueEnhancementJobs(b, m)

SpecBatches == InitQueue /\ [][NextBatches]_vars

\* the jobs the step enqueues are one per batch: batch numbers 1..n of n,
\* five chapters in every batch but the last, one to five in the last
OnePerBatchOfFive ==
  \A i \in Enqueued :
    LET job == processing_jobs'[i]
        n == Len(processing_jobs') - Len(processing_jobs)
    IN /\ job.job_type = "enhance_chapters"
       /\ job.input_data.batch_number = i - Len(processing_jobs)
       /\ job.input_data.total_batches = n
       /\ job.input_data.chapters \in 1..enhancementBatchSize
       /\ job.input_data.batch_number < n
            => job.input_data.chapters = enhancementBatchSize

WritesAggregateStatus(w) ==
  /\ Invoked(w, "enhance_chapters")
  /\ JobOf(w).input_data.batch_number = JobOf(w).input_data.total_batches
  /\ pc'[w] = "responded_ok"

\* the other enhancement batches of the book of job j that have not finished
UnfinishedBatches(j) ==
  {k \in JobIds \ {j} :
     /\ processing_jobs[k].job_type = "enhance_chapters"
     /\ processing_jobs[k].book_id = processing_jobs[j].book_id
     /\ processing_jobs[k].status \in {"pending", "running"}}

\* C31: when the aggregate enhancement status and the final completed
\* progress record of a document are written, no other enhancement batch of
\* the document is pending or running.
C31_AggregateAfterEveryBatch ==
  [][\A w \in Workers :
       WritesAggregateStatus(w) => UnfinishedBatches(held[w]) = {}]_vars

\* C32: every pending job has a retry count below its max_retries, so a
\* pending job whose dependency is satisfied is eligible to be claimed.
C32_PendingJobHasRetriesLeft ==
  \A j \in JobIds :
    processing_jobs[j].status = "pending" =>
      /\ RetriesLeft(j)
      /\ (DependencySatisfied(j) /\ SkipLocked(j)) => Eligible(j)

\* ---------------------------------------------------------------------------
\* Termination of a submitted document.  The workers poll the queue for as
\* long as a step is possible, so every step of the pipeline that stays
\* enabled is eventually taken: weak fairness on the next-state relation.
\* ---------------------------------------------------------------------------
SpecPipelineFair == InitPipeline /\ [][NextPipeline]_vars /\ WF_vars(NextPipeline)

\* C33: every submitted document eventually reaches processing status
\* 'completed' or 'failed'; none remains in 'processing' forever, whether a
\* stage throws or the enqueue of the next stage's job fails.
C33_SubmittedBookTerminates ==
  \A b \in Books :
    (books[b] = "processing") ~> (books[b] \in {"completed", "failed"})

\* ---------------------------------------------------------------------------
\* A stage that finishes for a document already marked failed.
\* ---------------------------------------------------------------------------
\* worker w's stage function returns its success response in this step
StageFinishes(w) ==
  /\ held[w] # NULL
  /\ pc[w] # "responded_ok"
  /\ pc'[w] = "responded_ok"

\* C34: a stage that finishes after its document has been marked failed
\* observes the failed state: it enqueues no further stage for the document
\* and does not change the document's status away from 'failed'.
C34_FinishingStageObservesFailure ==
  [][\A w \in Workers :
       (StageFinishes(w) /\ books[BookOf(w)] = "failed") =>
         /\ books'[BookOf(w)] = "failed"
         /\ \A j \in Enqueued : processing_jobs'[j].book_id # BookOf(w)]_vars

\* ---------------------------------------------------------------------------
\* Two invocations of store-chapters for one document at the same time.
\* ---------------------------------------------------------------------------
\* the rows invocation r prepares: prepareChaptersForDB(validatedChapters)
PreparedRows(r) == {ChapterForDB(k, r) : k \in 1..store[r].chapters}

\* invocation r arrived while an earlier one for the same document was under
\* way, and both are over
RanConcurrently(q, r) ==
  /\ q < r
  /\ store[q].pc = "done" /\ store[r].pc = "done"
  /\ store[q].book = store[r].book
  /\ store[q].chapters > 0 /\ store[r].chapters > 0
  /\ ~store[r].rerun

\* C35: when two store-chapters runs for the same document overlap, the
\* document ends with the complete chapter set of exactly one of the runs:
\* never a mixture of the two and never a partial set.
C35_ConcurrentRunsLeaveOneSet ==
  \A q, r \in StoreRuns :
    (RanConcurrently(q, r) /\ StoreIdle(store[r].book)) =>
      chapter_rows[store[r].book] \in {PreparedRows(q), PreparedRows(r)}

(***************************************************************************)
(* SpecReport: the progress records the enhancement batches of one         *)
(* document write, and the overall progress get-processing-status reports. *)
(* The batches are claimed in the order of their numbers and may run side  *)
(* by side; updated_at is the order in which the records are written.      *)
(***************************************************************************)
\* total_batches of the document
NumReportBatches == 2
\* the most chapters of one batch
MaxBatchChapters == 2

\* const baseProgress = 50 + (batch_number - 1) * (40 / total_batches)
baseProgress(batch_number) == 50 + (batch_number - 1) * (40 \div NumReportBatches)

\* const chapterProgress = 20 + Math.round((i / chapters.length) * 70)
chapterProgress(i, n) == 20 + (2 * i * 70 + n) \div (2 * n)

\* baseProgress + (chapterProgress / 100) * (40 / totalBatches)
chapterOverallProgress(batch_number, i, n) ==
  baseProgress(batch_number)
    + (chapterProgress(i, n) * (40 \div NumReportBatches)) \div 100

\* Math.min(90, baseProgress + (40 / total_batches))
batchOverallProgress(batch_number) ==
  Min(90, baseProgress(batch_number) + 40 \div NumReportBatches)

ReportUnchanged ==
  UNCHANGED <<queueVars, processing_cache, chapters, activeRequests, requestCounts,
              lastRequestTime, enhancement_status, nullResults, recentCalls,
              hourCalls, statusVars, processing_started_at, chapter_rows, store,
              cacheVars, book_totals, stageVars>>

\* updateProgress -> update_processing_progress: the record of (book, stage)
\* is inserted or overwritten, with updated_at = now()
updateProgress(bookId, stage, stageProgress, overallProgress) ==
  /\ now' = now + 1
  /\ processing_progress' =
       (processing_progress \ ProgressConflicts(bookId, stage))
         \cup {[book_id |-> bookId, stage |-> stage,
                stage_progress |-> stageProgress,
                overall_progress |-> overallProgress,
                updated_at |-> now + 1]}
  /\ books' = update_processing_progress(bookId, stage)

\* serve: the request of batch batch_number with n chapters is received and
\* the first record is written
ReportServe(r, batch_number, n) ==
  /\ request[r].pc = "none"
  /\ \A q \in Requests : request[q].pc # "none" => request[q].batch_number # batch_number
  /\ \A k \in 1..(batch_number - 1) :
       \E q \in Requests : request[q].pc # "none" /\ request[q].batch_number = k
  /\ request' = [request EXCEPT ![r] =
       [pc |-> "started", batch_number |-> batch_number, chapters |-> n, i |-> 0]]
  /\ updateProgress(EnhancedBook, "enhancing_chapters", 0, baseProgress(batch_number))
  /\ ReportUnchanged

\* the book and the rows of the chapters are read
ReportFound(r) ==
  /\ request[r].pc = "started"
  /\ request' = [request EXCEPT ![r].pc = "enhancing"]
  /\ updateProgress(EnhancedBook, "enhancing_chapters", 10,
                    baseProgress(request[r].batch_number) + 2)
  /\ ReportUnchanged

\* 'Book not found' or 'No chapters found in database' is thrown: the catch
\* block writes its record
ReportThrow(r) ==
  /\ request[r].pc = "started"
  /\ request' = [request EXCEPT ![r].pc = "done"]
  /\ updateProgress(EnhancedBook, "enhancing_chapters", 0, 50)
  /\ ReportUnchanged

\* enhanceChaptersWithRateLimit: one turn of the loop over the chapters
ReportChapter(r) ==
  /\ request[r].pc = "enhancing"
  /\ request[r].i < request[r].chapters
  /\ request' = [request EXCEPT ![r].i = @ + 1]
  /\ updateProgress(EnhancedBook, "enhancing_chapters",
                    chapterProgress(request[r].i, request[r].chapters),
                    chapterOverallProgress(request[r].batch_number, request[r].i,
                                           request[r].chapters))
  /\ ReportUnchanged

\* the loop is over: the record of the batch
ReportBatchDone(r) ==
  /\ request[r].pc = "enhancing"
  /\ request[r].i = request[r].chapters
  /\ request' = [request EXCEPT ![r].pc =
       IF request[r].batch_number = NumReportBatches THEN "last" ELSE "done"]
  /\ updateProgress(EnhancedBook, "enhancing_chapters", 100,
                    batchOverallProgress(request[r].batch_number))
  /\ ReportUnchanged

\* batch_number === total_batches: updateProgress('completed', 100, 100)
ReportCompleted(r) ==
  /\ request[r].pc = "last"
  /\ request' = [request EXCEPT ![r].pc = "done"]
  /\ updateProgress(EnhancedBook, "completed", 100, 100)
  /\ ReportUnchanged

NextReport ==
  \/ \E r \in Requests, k \in 1..NumReportBatches, n \in 1..MaxBatchChapters :
       ReportServe(r, k, n)
  \/ \E r \in Requests : ReportFound(r)
  \/ \E r \in Requests : ReportThrow(r)
  \/ \E r \in Requests : ReportChapter(r)
  \/ \E r \in Requests : ReportBatchDone(r)
  \/ \E r \in Requests : ReportCompleted(r)

SpecReport == InitEnhance /\ [][NextReport]_vars

\* get-processing-status: the records of the book, order('updated_at',
\* {ascending: false}); latestProgress = progressData[0]
ProgressData(b) == {row \in processing_progress : row.book_id = b}
latestProgress(b) ==
  CHOOSE row \in ProgressData(b) :
    \A other \in ProgressData(b) : other.updated_at <= row.updated_at

\* buildProcessingStatus: overallProgress = latestProgress?.overall_progress || 0
overallProgress(b) ==
  IF ProgressData(b) = {} THEN 0 ELSE latestProgress(b).overall_progress

\* C36: within one processing run the overall progress reported as current
\* never decreases, and once it is 100 it stays 100.
C36_OverallProgressNeverDecreases ==
  [][\A b \in Books : overallProgress(b)' >= overallProgress(b)]_vars

\* ---------------------------------------------------------------------------
\* store-chapters and the rows it has inserted when it completes a document.
\* ---------------------------------------------------------------------------
\* invocation r of store-chapters sets processing_status 'completed' in this
\* step (updateBookCompletionStatus)
CompletesBook(r) ==
  /\ store[r].pc = "finishing"
  /\ store'[r].pc = "done"
  /\ books'[store[r].book] = "completed"

\* C37: store-chapters gives a document the status 'completed' only if at
\* least one chapter was actually persisted: the invocation that completes
\* the document has inserted at least one row.
C37_CompletedOnlyWithChapters ==
  [][\A r \in StoreRuns : CompletesBook(r) => store[r].inserted > 0]_vars

(***************************************************************************)
(* SpecCacheManager: CacheManager.retrieve(cacheKey, cacheType) and        *)
(* CacheManager.store(entry), called with any key and any type.            *)
(***************************************************************************)
\* the keys the callers pass
ManagerKeys == {<<"k1">>, <<"k2">>}

\* the data a caller stores for a key and a type after a miss
ManagerData(cacheKey, cacheType) == [for_key |-> cacheKey, for_type |-> cacheType]

\* retrieve(cacheKey, cacheType), and on a miss store({cacheKey, cacheType, data})
ManagerRetrieve(c) ==
  \E cacheKey \in ManagerKeys, cacheType \in CacheTypes :
    CheckCache(c, cacheKey, cacheType, ManagerData(cacheKey, cacheType))

NextCacheManager ==
  \/ \E c \in CacheCallers : ManagerRetrieve(c)
  \/ \E c \in CacheCallers : GetCachedResultLock(c)
  \/ \E c \in CacheCallers : GetCachedResultCommit(c)
  \/ \E c \in CacheCallers : StoreInCache(c)

SpecCacheManager == InitEnhance /\ [][NextCacheManager]_vars

CallsStagesDirectly(r) == workflow[r].pc \in {"extract", "detect", "store"}

\* run r has handed its book to the queue with enqueue_job
QueueTried(r) == workflow[r].job # NULL

\* C39: the job queue is the sole source of forward progress: no orchestrator
\* calls a stage directly, except as a fallback when the queue is
\* unavailable; so a run that calls the stages directly has first tried the
\* queue.
C39_DirectCallOnlyAsFallback ==
  \A r \in WorkflowRuns : CallsStagesDirectly(r) => QueueTried(r)

\* ---------------------------------------------------------------------------
\* activeRequests and the calls of enhanceChapterWithAI under way.
\* ---------------------------------------------------------------------------
\* the invocations that waitForRateLimit has admitted and whose
\* enhanceChapterWithAI has not returned: the call is in flight or backs off
\* before its next attempt
Admitted == {r \in Requests : request[r].pc \in {"fetching", "backoff"}}

\* C40: activeRequests always equals the number of admitted summarization
\* calls that have not finished, and is never negative, retries after a
\* rate-limit or server-error response included.
C40_ActiveRequestsCountsAdmitted ==
  /\ activeRequests = Cardinality(Admitted)
  /\ activeRequests >= 0

====
